---- MODULE Spec2Model ----
(***************************************************************************)
(* Model of the code generator of transpiler.h: the register table, the    *)
(* privileged access sequences, the expression / statement generators,     *)
(* the label resolution pass, and the bytecode machine the emitted text is *)
(* written for (lexer.h, challenge statement).                             *)
(*                                                                         *)
(* Text is a sequence of atoms.  An atom is a string: a mnemonic ("li"),   *)
(* a blank " ", a line feed "\n", a colon ":", one decimal digit, or one   *)
(* piece of an identifier.  std::string concatenation is \o, so a missing  *)
(* blank or line feed in the source is a missing atom in the model.        *)
(***************************************************************************)
EXTENDS Integers, Sequences, FiniteSets, TLC

\* ------------------------------------------------------------------ bounds
MaxFuncs == 2
MaxStmts == 2
MaxSteps == 40

\* ------------------------------------------------------- program constants
START_OF_STACK == 9216
RBP == 7
RSP == 6
NUMBER_REGISTERS == 8
LOAD_CYCLES == <<"3", "0">>
STORE_CYCLES == <<"2", "0">>
PRIV_PREFIX == <<"privileged-">>

SP == " "
NL == "\n"
COLON == ":"
ELSE_LABEL == <<"ELSE_LABEL">>
END_LABEL == <<"END_LABEL">>
ERROR_REG == <<"Error">>
ERROR_EXPR == <<"Error: Expression type was not found">>

\* --------------------------------------------------------------- text
Digit == <<"0", "1", "2", "3", "4", "5", "6", "7", "8", "9">>

IsDigit(a) == \E d \in 1..10 : Digit[d] = a

DigitVal(a) == (CHOOSE d \in 1..10 : Digit[d] = a) - 1

IsSpace(a) == a = SP \/ a = NL

RECURSIVE to_string(_)
to_string(n) ==
    IF n < 10 THEN <<Digit[n + 1]>>
    ELSE to_string(n \div 10) \o <<Digit[(n % 10) + 1]>>

\* value of the leading run of digits of s, scanned from position i with
\* the value acc read so far
RECURSIVE DigitRun(_, _, _)
DigitRun(s, i, acc) ==
    IF i > Len(s) \/ ~IsDigit(s[i]) THEN acc
    ELSE DigitRun(s, i + 1, acc * 10 + DigitVal(s[i]))

\* std::stoi: the number the string starts with; -1 stands for the
\* std::invalid_argument it throws when the string starts with no digit
stoi(s) ==
    IF Len(s) = 0 \/ ~IsDigit(s[1]) THEN -1 ELSE DigitRun(s, 1, 0)

starts_with(s, p) ==
    Len(s) >= Len(p) /\ SubSeq(s, 1, Len(p)) = p

substr(s, pos) == SubSeq(s, pos + 1, Len(s))

\* ------------------------------------------------------------------- AST
Num(n) == [type |-> "NUMBER", value |-> n]
Id(name) == [type |-> "IDENTIFIER", value |-> name]
BinOp(l, r, op) == [type |-> "BIN_OP", lhs |-> l, rhs |-> r, op |-> op]
Paren(e) == [type |-> "EXPR", expr |-> e]
FuncCall(name, args) == [type |-> "FUNC_CALL", identifier |-> name, args |-> args]
SysCall(kind, args) == [type |-> "SYS_CALL", syscall |-> kind, args |-> args]
ExprStmt(e) == [type |-> "EXPR", expr |-> e]
Return(e) == [type |-> "RETURN", has_expr |-> TRUE, expr |-> e]
ReturnVoid == [type |-> "RETURN", has_expr |-> FALSE]
Scope(stmts) == [type |-> "SCOPE", statements |-> stmts]
Branch(cond, s) ==
    [type |-> "BRANCH", condition |-> cond, statement |-> s, has_else |-> FALSE]
BranchElse(cond, s, e) ==
    [type |-> "BRANCH", condition |-> cond, statement |-> s, has_else |-> TRUE,
     else_statement |-> e]
FuncDef(name, params) == [identifier |-> name, params |-> params]
PrivObj(name, addr) == [identifier |-> name, address |-> addr]

\* ------------------------------------------------------------ maps
Lookup(m, k) == IF k \in DOMAIN m THEN m[k] ELSE <<>>

Put(m, k, v) == [x \in (DOMAIN m) \cup {k} |-> IF x = k THEN v ELSE m[x]]

EmptyMap == [x \in {} |-> <<>>]

\* ------------------------------------------------- instruction text
Li(r, imm) == <<"li", SP>> \o r \o <<SP>> \o imm \o <<NL>>

Op2(m, a, b) == <<m, SP>> \o a \o <<SP>> \o b \o <<NL>>

Op3(m, a, b, d) == <<m, SP>> \o a \o <<SP>> \o b \o <<SP>> \o d \o <<NL>>

CountNL(s) == Cardinality({i \in 1..Len(s) : s[i] = NL})

\* ------------------------------------------------- code generator state
\* c.occ    occupiedRegister          c.regs  registers
\* c.out    output_string             c.priv  privilegedAddresses
\* c.crashed an exception left transpile() (std::stoi), the process ended
\* c.ub     the outcome chosen for undefined behaviour: "crash" or "run"
\* c.sites, c.branches  history of the privileged sequences and branches
\*                      emitted, with the output line each starts on
LineNo(c) == CountNL(c.out) + 1

Emit(c, text) == IF c.crashed THEN c ELSE [c EXCEPT !.out = @ \o text]

Crash(c) == [c EXCEPT !.crashed = TRUE]

\* occupiedRegister[std::stoi(r)] = b; the history keeps every register that
\* is marked free (kind "free", field `to`)
SetOcc(c, r, b) ==
    IF c.crashed THEN c
    ELSE IF stoi(r) < 0 \/ stoi(r) >= NUMBER_REGISTERS THEN Crash(c)
    ELSE [c EXCEPT !.occ[stoi(r)] = b,
                   !.sites = IF b THEN @
                             ELSE Append(@, [kind |-> "free",
                                             line |-> CountNL(c.out) + 1,
                                             to |-> stoi(r), from |-> -1,
                                             name |-> <<>>, occ |-> c.occ,
                                             first |-> 0, last |-> 0,
                                             regs |-> <<>>])]

\* occupiedRegister[i] = b
SetOccIdx(c, i, b) == IF c.crashed THEN c ELSE [c EXCEPT !.occ[i] = b]

\* registers[name] = r
Bind(c, name, r) ==
    IF c.crashed THEN c ELSE [c EXCEPT !.regs = Put(@, name, r)]

\* registers[static_cast<IdentifierNode*>(node)->value] = r; the cast of a
\* node that is no IdentifierNode reads a std::string that is not there
BindIdent(c, node, r) ==
    IF node.type = "IDENTIFIER" THEN Bind(c, node.value, r)
    ELSE IF c.ub = "crash" THEN Crash(c)
    ELSE Bind(c, <<"?">>, r)

AddrOf(reg) == stoi(substr(reg, Len(PRIV_PREFIX)))

\* a history record of this kind made on the current line: `occ` is
\* occupiedRegister at that point, the other fields are filled by the notes
Site(c, kind) ==
    [kind |-> kind, line |-> LineNo(c), to |-> -1, from |-> -1, name |-> <<>>,
     occ |-> c.occ, first |-> 0, last |-> 0, regs |-> <<>>]

\* history: a privileged sequence of this kind starts on the current line,
\* it writes the cell `to` and reads the cell `from` (-1: none)
Note(c, kind, to, from) ==
    IF c.crashed THEN c
    ELSE [c EXCEPT !.sites = Append(@, [Site(c, kind) EXCEPT !.to = to,
                                                             !.from = from])]

\* history: the line after the current one stages the jump to the label
\* `name` of a user function; the call started in the context `c0` (its
\* push_registers text starts on line `first` under the occupancy `occ`) and
\* the text of pop_registers ends on line `last`
NoteCall(c, name, c0, pop_instructions) ==
    IF c.crashed THEN c
    ELSE [c EXCEPT !.sites =
              Append(@, [Site(c, "call") EXCEPT
                             !.line = LineNo(c) + 1,
                             !.name = name,
                             !.occ = c0.occ,
                             !.first = LineNo(c0),
                             !.last = LineNo(c) + 2 + CountNL(pop_instructions)])]

\* history: argument i of a call is moved to its register by the two lines
\* that start on the current line; `regs` are the registers the symbol table
\* binds to the identifiers among the later arguments
NoteArg(c, args, i) ==
    IF c.crashed THEN c
    ELSE [c EXCEPT !.sites =
              Append(@, [Site(c, "arg") EXCEPT
                             !.to = i,
                             !.regs = [j \in 1..(Len(args) - i - 1) |->
                                          IF args[i + 1 + j].type = "IDENTIFIER"
                                          THEN Lookup(c.regs, args[i + 1 + j].value)
                                          ELSE <<>>]])]

\* history: the operator `op` was lowered by lines that start on `line`; it
\* reads the registers left and right and leaves its value in the register
\* `result`
NoteOp(res, line, op, left, right) ==
    IF res.c.crashed THEN res
    ELSE [res EXCEPT !.c.sites =
              Append(@, [Site(res.c, "op") EXCEPT
                             !.line = line,
                             !.name = <<op>>,
                             !.regs = <<left, right, res.r>>])]

\* history: the syscall instruction of a syscall of this kind goes on the
\* current line
NoteSyscall(c, kind) ==
    IF c.crashed THEN c
    ELSE [c EXCEPT !.sites = Append(@, [Site(c, "syscall") EXCEPT
                                             !.name = <<kind>>])]

\* variant of IsPrivileged that takes every identifier for a privileged one
IsPrivileged_Any(c, value) == value = value

IsPrivileged(c, value) == value \in DOMAIN c.priv

\* variant of get_free_register that scans the registers from 0 upwards
get_free_register_Lowest(c) ==
    IF \E i \in 0..(NUMBER_REGISTERS - 1) : ~c.occ[i]
    THEN to_string(CHOOSE i \in 0..(NUMBER_REGISTERS - 1) :
                      /\ ~c.occ[i]
                      /\ \A j \in 0..(i - 1) : c.occ[j])
    ELSE ERROR_REG

get_free_register(c) ==
    IF \E i \in 0..(NUMBER_REGISTERS - 1) : ~c.occ[i]
    THEN to_string(CHOOSE i \in 0..(NUMBER_REGISTERS - 1) :
                      /\ ~c.occ[i]
                      /\ \A j \in (i + 1)..(NUMBER_REGISTERS - 1) : c.occ[j])
    ELSE ERROR_REG

RECURSIVE push_loop(_, _, _)
push_loop(occ, f, i) ==
    IF i >= NUMBER_REGISTERS THEN <<>>
    ELSE (IF occ[i]
          THEN Op2("store", to_string(RSP), to_string(i))
               \o Op3("add", to_string(RSP), f, to_string(RSP))
               \o Op3("add", to_string(RBP), f, to_string(RBP))
          ELSE <<>>) \o push_loop(occ, f, i + 1)

push_registers(c, occ) ==
    LET f == get_free_register(c)
    IN  Li(f, <<"1">>)
        \o push_loop(occ, f, 1)
        \o Op2("store", to_string(RSP), to_string(RSP))
        \o Op3("add", to_string(RSP), f, to_string(RSP))
        \o Op2("store", to_string(RSP), to_string(RBP))
        \o Op3("mul", to_string(RSP), f, to_string(RSP))

RECURSIVE pop_loop(_, _, _)
pop_loop(occ, f, i) ==
    IF i < 1 THEN <<>>
    ELSE (IF occ[i]
          THEN Op2("load", to_string(RSP), to_string(i))
               \o Op3("sub", to_string(RSP), f, to_string(RSP))
               \o Op3("sub", to_string(RBP), f, to_string(RBP))
          ELSE <<>>) \o pop_loop(occ, f, i - 1)

pop_registers(c, occ) ==
    LET f == get_free_register(c)
    IN  Li(f, <<"1">>)
        \o pop_loop(occ, f, NUMBER_REGISTERS - 1)
        \o Op2("store", to_string(RSP), to_string(RSP))
        \o Op3("sub", to_string(RSP), f, to_string(RSP))
        \o Op2("load", to_string(RSP), to_string(RBP))

\* ---------------------------------------------- privileged sequences
\* ASS, lhs and rhs privileged (transpiler.h 229-257)
AssPrivPriv(c0, lhsNode, lhs_register, rhs_register) ==
    LET \* lines 246-257: address of lhs, 20 cycles, request, store
        Write(c2, free_register_rhs, free_register_cycles) ==
            LET free_register_lhs == get_free_register(c2)
            IN  [c |-> BindIdent(
                           Emit(SetOcc(c2, free_register_cycles, FALSE),
                                Li(free_register_lhs,
                                   substr(lhs_register, Len(PRIV_PREFIX)))
                                \o Li(free_register_cycles, STORE_CYCLES)
                                \o Op2("request", free_register_lhs,
                                       free_register_cycles)
                                \o Op2("store", free_register_lhs,
                                       free_register_rhs)),
                           lhsNode, free_register_rhs),
                 r |-> free_register_rhs]
        \* lines 236-243: 30 cycles, request, load
        Read(c1, free_register_rhs) ==
            LET free_register_cycles == get_free_register(c1)
            IN  Write(Emit(SetOcc(c1, free_register_cycles, TRUE),
                           Li(free_register_cycles, LOAD_CYCLES)
                           \o Op2("request", free_register_rhs,
                                  free_register_cycles)
                           \o <<"load", SP>> \o free_register_rhs
                           \o free_register_rhs \o <<NL>>),
                      free_register_rhs, free_register_cycles)
        \* lines 231-234: address of rhs
        Address(n0) ==
            LET free_register_rhs == get_free_register(n0)
            IN  Read(Emit(SetOcc(n0, free_register_rhs, TRUE),
                          Li(free_register_rhs,
                             substr(rhs_register, Len(PRIV_PREFIX)))),
                     free_register_rhs)
    IN  Address(Note(c0, "readwrite", AddrOf(lhs_register), AddrOf(rhs_register)))

\* ASS, lhs privileged only (transpiler.h 258-274)
\* variant of AssPrivPlain that binds the value without request and store
AssPrivPlain_Elided(c0, lhsNode, lhs_register, rhs_register) ==
    [c |-> BindIdent(c0, lhsNode, rhs_register), r |-> rhs_register]

AssPrivPlain(c0, lhsNode, lhs_register, rhs_register) ==
    LET \* lines 264-272: 20 cycles, request, store, local copy
        Write(c1, free_register_lhs) ==
            LET free_register_cycles == get_free_register(c1)
            IN  [c |-> BindIdent(
                           Emit(SetOcc(c1, free_register_lhs, FALSE),
                                Li(free_register_cycles, STORE_CYCLES)
                                \o Op2("request", free_register_lhs,
                                       free_register_cycles)
                                \o Op2("store", free_register_lhs, rhs_register)),
                           lhsNode, rhs_register),
                 r |-> rhs_register]
        \* lines 260-262: address of lhs
        Address(n0) ==
            LET free_register_lhs == get_free_register(n0)
            IN  Write(Emit(SetOcc(n0, free_register_lhs, TRUE),
                           Li(free_register_lhs,
                              substr(lhs_register, Len(PRIV_PREFIX)))),
                      free_register_lhs)
    IN  Address(Note(c0, "write", AddrOf(lhs_register), -1))

\* ASS, rhs privileged only (transpiler.h 276-287)
AssPlainPriv(c0, lhs_register, rhs_register) ==
    LET \* lines 281-287: 30 cycles, request, load
        Read(c1, free_register_rhs) ==
            LET free_register_cycles == get_free_register(c1)
            IN  [c |-> Emit(c1, Li(free_register_cycles, LOAD_CYCLES)
                                \o Op2("request", free_register_rhs,
                                       free_register_cycles)
                                \o <<"load", SP>> \o free_register_rhs
                                \o lhs_register \o <<NL>>),
                 r |-> lhs_register]
        \* lines 278-279: address of rhs
        Address(n0) ==
            LET free_register_rhs == get_free_register(n0)
            IN  Read(Emit(n0, Li(free_register_rhs,
                                 substr(rhs_register, Len(PRIV_PREFIX)))),
                     free_register_rhs)
    IN  Address(Note(c0, "read_ass", -1, AddrOf(rhs_register)))

\* ASS, neither side privileged (transpiler.h 288-293)
\* variant of AssPlain that emits no move and hands on the right-hand side
AssPlain_NoMove(c0, lhs_register, rhs_register) ==
    [c |-> c0, r |-> rhs_register]

AssPlain(c0, lhs_register, rhs_register) ==
    [c |-> SetOcc(Emit(c0, Li(lhs_register, <<"0">>)
                           \o Op3("add", lhs_register, rhs_register, lhs_register)),
                  rhs_register, FALSE),
     r |-> lhs_register]

\* an operand of an operator, loaded when privileged (transpiler.h 298-331)
LoadOperand(c0, node, reg) ==
    LET \* cycles, request, load, local copy
        Read(c1, free_register) ==
            LET cycles_register == get_free_register(c1)
            IN  [c |-> BindIdent(
                           Emit(SetOcc(c1, free_register, FALSE),
                                Li(cycles_register, LOAD_CYCLES)
                                \o Op2("request", free_register, cycles_register)
                                \o Op2("load", free_register, free_register)),
                           node, free_register),
                 r |-> free_register]
        \* address of the operand
        Address(n0) ==
            LET free_register == get_free_register(n0)
            IN  Read(Emit(SetOcc(n0, free_register, TRUE),
                          Li(free_register, substr(reg, Len(PRIV_PREFIX)))),
                     free_register)
    IN  IF ~starts_with(reg, PRIV_PREFIX) THEN [c |-> c0, r |-> reg]
        ELSE Address(Note(c0, "read_op", -1, AddrOf(reg)))

\* the operators (transpiler.h 332-405)
Operator(c0, op, left_reg, right_reg) ==
    LET free_register == get_free_register(c0)
        occ == SetOcc(c0, free_register, TRUE)
        free_register_one == get_free_register(occ)
    IN  CASE op = "ADD" ->
              [c |-> SetOcc(Emit(c0, Op3("add", left_reg, right_reg, free_register)),
                            free_register, TRUE), r |-> free_register]
          [] op = "SUB" ->
              [c |-> SetOcc(Emit(c0, Op3("sub", left_reg, right_reg, free_register)),
                            free_register, TRUE), r |-> free_register]
          [] op = "MUL" ->
              [c |-> SetOcc(Emit(c0, Op3("mul", left_reg, right_reg, free_register)),
                            free_register, TRUE), r |-> free_register]
          [] op = "LT" ->
              [c |-> SetOcc(Emit(c0, Op3("cmpGT", right_reg, left_reg, free_register)),
                            free_register, TRUE), r |-> free_register]
          [] op = "GT" ->
              [c |-> SetOcc(Emit(c0, Op3("cmpGT", left_reg, right_reg, free_register)),
                            free_register, TRUE), r |-> free_register]
          [] op = "LE" ->
              [c |-> Emit(occ, Op3("cmpGT", left_reg, right_reg, free_register)
                               \o Li(free_register_one, <<"1">>)
                               \o Op3("sub", free_register, free_register_one,
                                      free_register)),
               r |-> free_register]
          [] op = "GE" ->
              [c |-> Emit(occ, Op3("cmpGT", right_reg, left_reg, free_register)
                               \o Li(free_register_one, <<"1">>)
                               \o Op3("sub", free_register, free_register_one,
                                      free_register)),
               r |-> free_register]
          [] op = "EQ" ->
              [c |-> Emit(SetOcc(Emit(c0, Op3("sub", left_reg, right_reg,
                                              free_register)),
                                 free_register, TRUE),
                          Li(free_register_one, <<"1">>)
                          \o Op3("cmpGT", free_register_one, free_register,
                                 free_register)),
               r |-> free_register]
          [] op = "NE" ->
              [c |-> SetOcc(Emit(c0, Op3("sub", left_reg, right_reg, free_register)),
                            free_register, TRUE), r |-> free_register]
          [] OTHER -> [c |-> c0, r |-> ERROR_EXPR]

\* ------------------------------------------------ expression generator
SyscallNumber(kind) ==
    CASE kind = "OPEN" -> <<"0">>
      [] kind = "WRITE" -> <<"1">>
      [] kind = "READ" -> <<"2">>
      [] kind = "IOCTL" -> <<"3">>

RECURSIVE transpile_expr(_, _)
RECURSIVE func_call_args(_, _, _)
RECURSIVE sys_call_args(_, _, _)

\* the argument loop of transpile_func_call (transpiler.h 114-121); i counts
\* from 0 as in the source
func_call_args(c0, args, i) ==
    LET Move(res) ==
            func_call_args(
                SetOccIdx(SetOcc(Emit(NoteArg(res.c, args, i),
                                      Li(to_string(i + 2), <<"0">>)
                                             \o <<"add", SP>> \o to_string(i + 2)
                                             \o res.r \o to_string(i + 2)
                                             \o <<NL>>),
                                 res.r, FALSE),
                          i + 2, TRUE),
                args, i + 1)
    IN  IF i >= Len(args) \/ c0.crashed THEN c0
        ELSE Move(transpile_expr(c0, args[i + 1]))

transpile_func_call(c0, funcCall) ==
    LET c1 == Emit(c0, push_registers(c0, c0.occ))
        pop_instructions == pop_registers(c1, c1.occ)
        c2 == func_call_args(c1, funcCall.args, 0)
        c3 == Emit(NoteCall(c2, funcCall.identifier, c0, pop_instructions),
                   Li(<<"0">>, <<"0">>)
                       \o Li(<<"1">>, funcCall.identifier)
                       \o Op2("jmpEqZ", <<"0">>, <<"1">>)
                       \o pop_instructions)
    IN  [c |-> c3, r |-> <<"0">>]

\* the argument loop of the SYS_CALL case (transpiler.h 147-159)
sys_call_args(c0, args, i) ==
    LET arg == args[i + 1]
        known == arg.type = "IDENTIFIER" /\ arg.value \in DOMAIN c0.regs
        \* registers.find(...)->second = to_string(i); the iterator is end()
        \* or the key was read through a wrong cast unless `known`
        b1 == IF known THEN Bind(c0, arg.value, to_string(i))
              ELSE IF c0.ub = "crash" THEN Crash(c0) ELSE c0
        \* register i is moved to a free register
        Spill(bound) ==
            LET free_register == get_free_register(bound)
            IN  Emit(Bind(bound, to_string(i), free_register),
                     Li(free_register, <<"0">>)
                     \o Op3("add", free_register, to_string(i), free_register))
        c1 == IF c0.occ[i] THEN Spill(b1) ELSE SetOccIdx(c0, i, TRUE)
        Move(res) ==
            sys_call_args(Emit(res.c, Op3("add", to_string(i), res.r, to_string(i))),
                          args, i + 1)
    IN  IF i >= Len(args) \/ c0.crashed THEN c0
        ELSE Move(transpile_expr(Emit(c1, Li(to_string(i), <<"0">>)), arg))

transpile_sys_call(c0, sysCall) ==
    LET c1 == sys_call_args(c0, sysCall.args, 0)
        syscall_num_reg == get_free_register(c1)
        c2 == SetOcc(Emit(c1, Li(syscall_num_reg, <<"0">>)), syscall_num_reg, TRUE)
    IN  [c |-> Emit(NoteSyscall(c2, sysCall.syscall),
                    <<"syscall", SP>> \o SyscallNumber(sysCall.syscall)),
         r |-> <<"0">>]

transpile_number(c0, number) ==
    LET free_register == get_free_register(c0)
    IN  [c |-> SetOcc(Emit(c0, Li(free_register, to_string(number.value))),
                      free_register, TRUE),
         r |-> free_register]

transpile_identifier(c0, node) ==
    IF IsPrivileged(c0, node.value)
    THEN [c |-> c0, r |-> PRIV_PREFIX \o Lookup(c0.priv, node.value)]
    ELSE IF Lookup(c0.regs, node.value) # <<>>
    THEN [c |-> c0, r |-> Lookup(c0.regs, node.value)]
    ELSE LET value_register == get_free_register(c0)
         IN  [c |-> Bind(SetOcc(c0, value_register, TRUE), node.value,
                         value_register),
              r |-> value_register]

transpile_bin_op(c0, binOpNode) ==
    LET \* lines 332-405
        Apply(left, right) ==
            NoteOp(Operator(right.c, binOpNode.op, left.r, right.r),
                   LineNo(right.c), binOpNode.op, left.r, right.r)
        \* lines 315-331
        LoadRight(left, rhs_register) ==
            Apply(left, LoadOperand(left.c, binOpNode.rhs, rhs_register))
        \* lines 225-314
        Both(c2, lhs_register, rhs_register) ==
            LET lp == starts_with(lhs_register, PRIV_PREFIX)
                rp == starts_with(rhs_register, PRIV_PREFIX)
            IN  IF binOpNode.op = "ASS"
                THEN CASE lp /\ rp -> AssPrivPriv(c2, binOpNode.lhs, lhs_register,
                                                  rhs_register)
                       [] lp /\ ~rp -> AssPrivPlain(c2, binOpNode.lhs, lhs_register,
                                                    rhs_register)
                       [] ~lp /\ rp -> AssPlainPriv(c2, lhs_register, rhs_register)
                       [] OTHER -> AssPlain(c2, lhs_register, rhs_register)
                ELSE LoadRight(LoadOperand(c2, binOpNode.lhs, lhs_register),
                               rhs_register)
        \* line 223
        Rhs(l, r) == Both(r.c, l.r, r.r)
        \* line 222
        Lhs(l) == Rhs(l, transpile_expr(l.c, binOpNode.rhs))
    IN  Lhs(transpile_expr(c0, binOpNode.lhs))

transpile_expr(c0, expr) ==
    IF c0.crashed THEN [c |-> c0, r |-> <<>>]
    ELSE CASE expr.type = "EXPR" -> transpile_expr(c0, expr.expr)
           [] expr.type = "FUNC_CALL" -> transpile_func_call(c0, expr)
           [] expr.type = "SYS_CALL" -> transpile_sys_call(c0, expr)
           [] expr.type = "NUMBER" -> transpile_number(c0, expr)
           [] expr.type = "IDENTIFIER" -> transpile_identifier(c0, expr)
           [] expr.type = "BIN_OP" -> transpile_bin_op(c0, expr)
           [] OTHER -> [c |-> c0, r |-> ERROR_EXPR]

\* ------------------------------------------------- statement generator
transpile_return(c0, returnNode) ==
    LET Move(res) ==
            SetOccIdx(SetOcc(Emit(res.c, Li(<<"0">>, <<"0">>)
                                         \o Op3("add", res.r, <<"0">>, <<"0">>)
                                         \o Li(<<"1">>, <<"0">>)),
                             res.r, FALSE),
                      0, TRUE)
    IN  IF returnNode.has_expr
        THEN Emit(Move(transpile_expr(c0, returnNode.expr)), <<"exit", NL>>)
        ELSE Emit(c0, <<"exit", NL>>)

RECURSIVE transpile_branch(_, _)
RECURSIVE transpile_scope(_, _, _)
RECURSIVE transpile_statement(_, _)

\* the switch on a statement's type, in transpile_scope and twice in
\* transpile_branch (an unknown type prints an error and emits nothing)
transpile_statement(c0, statement) ==
    IF c0.crashed THEN c0
    ELSE CASE statement.type = "SCOPE" ->
                  transpile_scope(c0, statement.statements, 1)
           [] statement.type = "RETURN" -> transpile_return(c0, statement)
           [] statement.type = "BRANCH" -> transpile_branch(c0, statement)
           [] statement.type = "EXPR" -> transpile_expr(c0, statement).c
           [] OTHER -> c0

transpile_scope(c0, statements, i) ==
    IF i > Len(statements) THEN c0
    ELSE transpile_scope(transpile_statement(c0, statements[i]), statements, i + 1)

transpile_branch(c0, branch) ==
    LET \* line 509, and the history record of the branch
        Close(c6, free_register, jmpLine, elseLine) ==
            LET c7 == SetOcc(c6, free_register, TRUE)
            IN  IF c7.crashed THEN c7
                ELSE [c7 EXCEPT !.branches =
                         Append(@, [jmp |-> jmpLine, else_at |-> elseLine,
                                    end_at |-> LineNo(c6),
                                    has_else |-> branch.has_else,
                                    else_label |-> ELSE_LABEL,
                                    end_label |-> END_LABEL])]
        \* lines 482-507: the else-statement and END_LABEL:
        Else(c4, free_register, jmpLine) ==
            Close(Emit(IF branch.has_else
                       THEN transpile_statement(c4, branch.else_statement)
                       ELSE c4,
                       END_LABEL \o <<COLON>>),
                  free_register, jmpLine, LineNo(c4))
        \* lines 473-480: the jump over the else-statement and ELSE_LABEL:
        Skip(c2, jmpLine) ==
            LET free_register == get_free_register(c2)
                c3 == SetOcc(c2, free_register, TRUE)
                free_register_label == get_free_register(c3)
            IN  Else(Emit(SetOcc(c3, free_register, FALSE),
                          Li(free_register, <<"0">>)
                          \o Li(free_register_label, END_LABEL)
                          \o <<"jmpEqZ", SP>> \o free_register \o <<SP>>
                          \o free_register_label \o <<SP, NL>>
                          \o ELSE_LABEL \o <<COLON>>),
                     free_register, jmpLine)
        \* lines 448-471: the statement
        Then(c1) ==
            Skip(transpile_statement(c1, branch.statement), LineNo(c1) - 1)
        \* lines 444-446: the jump to ELSE_LABEL
        Jump(cond) ==
            LET free_register_label == get_free_register(cond.c)
            IN  Then(Emit(cond.c, Li(free_register_label, ELSE_LABEL)
                                  \o <<"jmpEqZ", SP>> \o cond.r \o <<SP>>
                                  \o free_register_label \o <<SP, NL>>))
    IN  Jump(transpile_expr(c0, branch.condition))

\* ------------------------------------------------ label resolution pass
\* the one-character strings registers[parameter->value] = num_param makes
CHR == <<"chr0", "chr1", "chr2", "chr3", "chr4", "chr5", "chr6", "chr7">>

IsChr(a) == \E i \in 1..Len(CHR) : CHR[i] = a

\* number of characters of an atom
CharLen(a) == IF IsChr(a) THEN 1 ELSE Len(a)

\* [a-zA-Z0-9_]
IsWord(a) ==
    /\ a \notin {SP, NL, COLON, "?", PRIV_PREFIX[1], ERROR_EXPR[1]}
    /\ ~IsChr(a)

\* the positions of the atom ch in s[lo..hi], ascending
RECURSIVE Positions(_, _, _, _)
Positions(s, ch, lo, hi) ==
    IF lo > hi THEN <<>>
    ELSE IF lo = hi THEN (IF s[lo] = ch THEN <<lo>> ELSE <<>>)
    ELSE Positions(s, ch, lo, (lo + hi) \div 2)
         \o Positions(s, ch, ((lo + hi) \div 2) + 1, hi)

\* the lines std::getline reads: the pieces between line feeds, and the
\* piece after the last line feed when it is not empty
Lines(s) ==
    LET nl == Positions(s, NL, 1, Len(s))
        tail == IF nl = <<>> THEN Len(s) > 0 ELSE nl[Len(nl)] < Len(s)
        n == Len(nl) + (IF tail THEN 1 ELSE 0)
    IN  [k \in 1..n |->
            SubSeq(s, IF k = 1 THEN 1 ELSE nl[k - 1] + 1,
                      IF k <= Len(nl) THEN nl[k] - 1 ELSE Len(s))]

RECURSIVE SkipWord(_, _)
SkipWord(s, i) == IF i <= Len(s) /\ IsWord(s[i]) THEN SkipWord(s, i + 1) ELSE i

RECURSIVE SkipSpace(_, _)
SkipSpace(s, i) == IF i <= Len(s) /\ IsSpace(s[i]) THEN SkipSpace(s, i + 1) ELSE i

RECURSIVE SkipDigit(_, _)
SkipDigit(s, i) == IF i <= Len(s) /\ IsDigit(s[i]) THEN SkipDigit(s, i + 1) ELSE i

\* std::regex_search(line, "^([a-zA-Z0-9_]+):"): the label, <<>> when none
LabelOf(line) ==
    LET k == SkipWord(line, 1)
    IN  IF k > 1 /\ k <= Len(line) /\ line[k] = COLON
        THEN SubSeq(line, 1, k - 1) ELSE <<>>

\* labels[match[1]] = line_number, a later line overwriting an earlier one
ScanLabels(s) ==
    LET ls == Lines(s)
        found == [i \in 1..Len(ls) |-> LabelOf(ls[i])]
        names == {found[i] : i \in 1..Len(ls)} \ {<<>>}
    IN  [n \in names |->
            CHOOSE i \in 1..Len(ls) :
                /\ found[i] = n
                /\ \A j \in (i + 1)..Len(ls) : found[j] # n]

MatchAt(s, i, t) ==
    /\ i + Len(t) - 1 <= Len(s)
    /\ s[i] = t[1]
    /\ SubSeq(s, i, i + Len(t) - 1) = t

\* the atom that holds the character k characters after the start of atom p
RECURSIVE AdvanceChars(_, _, _)
AdvanceChars(s, p, k) ==
    IF k <= 0 \/ p > Len(s) THEN p
    ELSE AdvanceChars(s, p + 1, k - CharLen(s[p]))

Min(S) == CHOOSE m \in S : \A k \in S : m <= k

\* while ((pos = find(label_str, pos)) != npos) { replace(pos, len, "");
\*                                                pos += digits; }
RECURSIVE RemoveMarkers(_, _, _, _)
RemoveMarkers(s, label_str, digits, pos) ==
    LET found == {i \in pos..Len(s) : MatchAt(s, i, label_str)}
        at == Min(found)
        t == SubSeq(s, 1, at - 1) \o SubSeq(s, at + Len(label_str), Len(s))
    IN  IF found = {} THEN s
        ELSE RemoveMarkers(t, label_str, digits, AdvanceChars(t, at, digits))

\* a match of "li\\s+(\\d+)\\s+" + name starts at atom i
RegexHit(s, name, i) ==
    LET d1 == SkipSpace(s, i + 1)
        d2 == SkipDigit(s, d1)
        d3 == SkipSpace(s, d2)
    IN  /\ s[i] = "li"
        /\ d1 > i + 1 /\ d2 > d1 /\ d3 > d2
        /\ MatchAt(s, d3, name)

\* std::regex_replace(s, "li\\s+(\\d+)\\s+" + label, "li $1 " + number)
RECURSIVE RegexReplace(_, _, _, _)
RegexReplace(s, name, number, from) ==
    LET hits == {i \in from..Len(s) : RegexHit(s, name, i)}
        i == Min(hits)
        d1 == SkipSpace(s, i + 1)
        d2 == SkipDigit(s, d1)
        d3 == SkipSpace(s, d2)
    IN  IF hits = {} THEN SubSeq(s, from, Len(s))
        ELSE SubSeq(s, from, i - 1)
             \o <<"li", SP>> \o SubSeq(s, d1, d2 - 1) \o <<SP>> \o to_string(number)
             \o RegexReplace(s, name, number, d3 + Len(name))

\* the loop over the unordered_map, visited in the order `order`
RECURSIVE ResolveLoop(_, _, _, _)
ResolveLoop(s, labels, order, i) ==
    IF i > Len(order) THEN s
    ELSE
    LET name == order[i]
        stripped == RemoveMarkers(s, name \o <<COLON>>,
                                  Len(to_string(labels[name])), 1)
    IN  ResolveLoop(RegexReplace(stripped, name, labels[name], 1),
                    labels, order, i + 1)

\* replace_jump_labels, with the labels its first loop found
replace_jump_labels(s, labels, order) == ResolveLoop(s, labels, order, 1)

\* the orders in which an unordered_map with these keys can be visited
RECURSIVE Orders(_)
Orders(S) ==
    IF S = {} THEN {<<>>}
    ELSE UNION {{<<x>> \o o : o \in Orders(S \ {x})} : x \in S}

\* ------------------------------------------------------------ inputs
main == <<"main">>
bar == <<"bar">>
a == <<"a">>
b == <<"b">>
x == <<"x">>
y == <<"y">>
p == <<"p">>

Assign(l, r) == ExprStmt(BinOp(l, r, "ASS"))

\* the privileged object declarations a program can start with
DeclPool == << <<PrivObj(a, 200), PrivObj(b, 100)>> >>

\* the function headers a program can define
FuncPool == <<FuncDef(main, <<>>), FuncDef(bar, <<p>>)>>

\* the statements a function body is made of
StmtPool ==
    << Assign(Id(x), Num(1)),
       Assign(Id(a), Id(b)),
       Assign(Id(x), Id(a)),
       Assign(Id(b), BinOp(Id(a), Num(1), "ADD")),
       Assign(Id(a), BinOp(Id(b), Num(1), "ASS")),
       Assign(Id(a), BinOp(Num(1), BinOp(Num(2), Num(3), "ADD"), "ADD")),
       ExprStmt(FuncCall(bar, <<Id(x)>>)),
       Branch(Id(a), Assign(Id(x), Num(1))) >>

\* the statements of the programs whose instructions and labels are examined
LabelPool ==
    << Assign(Id(a), Num(1)),
       ExprStmt(SysCall("OPEN", <<Num(4), Num(5)>>)),
       ExprStmt(FuncCall(bar, <<Id(x)>>)),
       Return(Id(x)),
       Branch(Id(x), Assign(Id(y), Num(1))),
       BranchElse(BinOp(Id(a), Num(5), "EQ"), Assign(Id(b), Num(2)),
                  Assign(Id(b), Num(100))),
       BranchElse(Id(x), Assign(Id(y), Num(1)),
                  BranchElse(Id(y), Scope(<<Assign(Id(a), Num(2))>>),
                             Assign(Id(x), Num(3)))) >>

\* the statements of the programs that are also run
RunPool ==
    << Assign(Id(x), Num(1)),
       Assign(Id(a), Num(5)),
       Return(Id(x)),
       BranchElse(Id(x), Assign(Id(b), Num(2)), Assign(Id(b), Num(3))),
       BranchElse(BinOp(Id(a), Num(5), "EQ"), Assign(Id(x), Num(2)),
                  Assign(Id(x), Num(3))) >>

\* the function headers of the programs whose parameter lists are examined
ParamFuncPool ==
    << FuncDef(main, <<>>),
       FuncDef(bar, <<p>>),
       FuncDef(<<"f7">>, << <<"p1">>, <<"p2">>, <<"p3">>, <<"p4">>, <<"p5">>,
                            <<"p6">>, <<"p7">> >>),
       FuncDef(<<"f9">>, << <<"p1">>, <<"p2">>, <<"p3">>, <<"p4">>, <<"p5">>,
                            <<"p6">>, <<"p7">>, <<"p8">>, <<"p9">> >>) >>

\* and the statements of their bodies
ParamStmtPool ==
    << Assign(Id(x), Num(1)),
       Assign(Id(a), Num(1)),
       ReturnVoid,
       Return(Id(p)),
       Assign(Id(x), Id(p)),
       Assign(Id(x), BinOp(Id(p), Num(1), "ADD")) >>

\* the privileged object declarations of the example programs
ExampleDecls ==
    << <<PrivObj(a, 200)>>,
       <<PrivObj(a, 200), PrivObj(b, 100)>> >>

\* the function bodies of the example programs: the trivial example and the
\* syscall example of the challenge statement, the four syscalls, returns,
\* and comparisons
BodyPool ==
    << << Assign(Id(<<"d">>), Num(0)),
          Assign(Id(<<"e">>), Num(2)),
          Assign(Id(a), BinOp(Id(<<"d">>), Id(<<"e">>), "ADD")) >>,
       << Assign(Id(a), Num(1)),
          ExprStmt(SysCall("OPEN", <<Num(4), Num(5)>>)) >>,
       << ExprStmt(SysCall("OPEN", <<Num(4), Num(5)>>)) >>,
       << ExprStmt(SysCall("OPEN", <<Num(4), Num(5)>>)),
          ReturnVoid >>,
       << ExprStmt(SysCall("WRITE", <<Id(x), Id(x), Id(x)>>)) >>,
       << ExprStmt(SysCall("READ", <<Id(x), Id(x), Id(x)>>)),
          ExprStmt(SysCall("IOCTL", <<Id(x), Id(x), Id(x)>>)) >>,
       << ReturnVoid >>,
       << Return(Num(7)) >>,
       << Assign(Id(x), Num(1)),
          Return(BinOp(BinOp(Num(1), Num(2), "ADD"), Num(3), "ADD")) >>,
       << Assign(Id(x), BinOp(Id(a), Num(5), "EQ")) >>,
       << Assign(Id(x), BinOp(Id(a), Num(5), "NE")) >>,
       << Assign(Id(a), Num(5)),
          Assign(Id(b), Num(0)),
          Assign(Id(x), BinOp(Id(a), Id(b), "EQ")) >> >>

\* function bodies that exercise the operators and the plain assignment:
\* the relational operators on a privileged cell and a number, assignments
\* between variables, and arithmetic on numbers and on privileged cells
OpsPool ==
    << << Assign(Id(x), BinOp(Id(a), Num(3), "LT")) >>,
       << Assign(Id(x), BinOp(Id(a), Num(3), "GT")) >>,
       << Assign(Id(x), BinOp(Id(a), Num(3), "LE")) >>,
       << Assign(Id(x), BinOp(Id(a), Num(3), "GE")) >>,
       << Assign(Id(x), BinOp(Id(a), Num(5), "EQ")) >>,
       << Assign(Id(y), Num(1)),
          Assign(Id(x), Id(y)) >>,
       << Assign(Id(x), Num(1)),
          Assign(Id(x), Id(x)) >>,
       << Assign(Id(x), BinOp(Num(1), Num(2), "ADD")) >>,
       << Assign(Id(a), Num(5)),
          Assign(Id(b), Num(0)),
          Assign(Id(x), BinOp(Id(a), Id(b), "SUB")) >>,
       << Assign(Id(x), Num(1)),
          Assign(Id(y), BinOp(Id(x), Id(a), "SUB")) >> >>

\* the values a privileged cell can hold when the program starts
MemValues == {0, 5}

\* ------------------------------------------------------------- state
VARIABLES
    pc,                   \* where transpile() is: "new", "funcs", "written",
                          \* "crashed" (exception), "aborted" (early return)
    privilegedAddresses,  \* name -> address text; its domain is the set of
                          \* names privilegedObjects maps to true
    occupiedRegister,
    registers,
    output_string,
    outFile,              \* the text written to outFile, <<>> before
    source,               \* the functions and statements lowered so far
    sites,                \* privileged sequences emitted so far
    branches,             \* branches emitted so far
    vm                    \* the machine running outFile

vars == <<pc, privilegedAddresses, occupiedRegister, registers, output_string,
          outFile, source, sites, branches, vm>>

VmIdle == [status |-> "idle", pc |-> 1, reg |-> [i \in 0..7 |-> 0],
           mem |-> EmptyMap, steps |-> 0, visited |-> {}, log |-> <<>>,
           conds |-> EmptyMap, calls |-> <<>>]

Init ==
    /\ pc = "new"
    /\ privilegedAddresses = EmptyMap
    /\ occupiedRegister = [i \in 0..(NUMBER_REGISTERS - 1) |-> FALSE]
    /\ registers = EmptyMap
    /\ output_string = <<>>
    /\ outFile = <<>>
    /\ source = <<>>
    /\ sites = <<>>
    /\ branches = <<>>
    /\ vm = VmIdle

Ctx(ub) ==
    [occ |-> occupiedRegister, regs |-> registers, out |-> output_string,
     priv |-> privilegedAddresses, crashed |-> FALSE, ub |-> ub,
     sites |-> sites, branches |-> branches]

NumStmts == IF source = <<>> THEN 0 ELSE Len(source[Len(source)].body)

TotalStmts(src) ==
    LET RECURSIVE Sum(_)
        Sum(i) == IF i > Len(src) THEN 0 ELSE Len(src[i].body) + Sum(i + 1)
    IN  Sum(1)

\* transpile(), lines 608-611: the privileged object tables
LoadPrivObjects(privObjNodes) ==
    /\ pc = "new"
    /\ pc' = "funcs"
    /\ privilegedAddresses' =
           [n \in {privObjNodes[i].identifier : i \in 1..Len(privObjNodes)} |->
               to_string(privObjNodes[CHOOSE i \in 1..Len(privObjNodes) :
                              /\ privObjNodes[i].identifier = n
                              /\ \A j \in (i + 1)..Len(privObjNodes) :
                                     privObjNodes[j].identifier # n].address)]
    /\ UNCHANGED <<occupiedRegister, registers, output_string, outFile, source,
                   sites, branches, vm>>

\* transpile(), lines 623-652: the head of one iteration of the loop over
\* the function definitions
ParamRegisters(params) ==
    [n \in {params[i] : i \in 1..Len(params)} |->
        <<CHR[CHOOSE i \in 1..Len(params) :
                 /\ params[i] = n
                 /\ \A j \in (i + 1)..Len(params) : params[j] # n]>>]

\* variant of BeginFunction that keeps the register table and the symbol
\* table of the previous function
BeginFunction_NoReset(funcDefNode) ==
    /\ pc = "funcs"
    /\ Len(source) < MaxFuncs
    /\ \A i \in 1..Len(source) : source[i].identifier # funcDefNode.identifier
    /\ source' = Append(source, [identifier |-> funcDefNode.identifier,
                                 params |-> funcDefNode.params, body |-> <<>>,
                                 from |-> Len(output_string) + 1,
                                 line |-> CountNL(output_string) + 1])
    /\ output_string' = output_string \o funcDefNode.identifier \o <<COLON>>
           \o (IF funcDefNode.identifier = main
               THEN Li(to_string(RBP), to_string(START_OF_STACK))
                    \o Li(to_string(RSP), to_string(START_OF_STACK))
               ELSE <<>>)
    /\ IF Len(funcDefNode.params) > NUMBER_REGISTERS
       THEN /\ pc' = "aborted"
            /\ UNCHANGED <<occupiedRegister, registers>>
       ELSE /\ pc' = "funcs"
            /\ occupiedRegister' =
                   [i \in 0..(NUMBER_REGISTERS - 1) |->
                       \/ occupiedRegister[i]
                       \/ i = RBP \/ i = RSP \/ i < Len(funcDefNode.params)]
            /\ registers' =
                   [n \in DOMAIN registers
                          \cup DOMAIN ParamRegisters(funcDefNode.params) |->
                       IF n \in DOMAIN ParamRegisters(funcDefNode.params)
                       THEN ParamRegisters(funcDefNode.params)[n]
                       ELSE registers[n]]
    /\ UNCHANGED <<privilegedAddresses, outFile, sites, branches, vm>>

BeginFunction(funcDefNode) ==
    /\ pc = "funcs"
    /\ Len(source) < MaxFuncs
    /\ \A i \in 1..Len(source) : source[i].identifier # funcDefNode.identifier
    /\ source' = Append(source, [identifier |-> funcDefNode.identifier,
                                 params |-> funcDefNode.params, body |-> <<>>,
                                 from |-> Len(output_string) + 1,
                                 line |-> CountNL(output_string) + 1])
    /\ output_string' = output_string \o funcDefNode.identifier \o <<COLON>>
           \o (IF funcDefNode.identifier = main
               THEN Li(to_string(RBP), to_string(START_OF_STACK))
                    \o Li(to_string(RSP), to_string(START_OF_STACK))
               ELSE <<>>)
    /\ IF Len(funcDefNode.params) > NUMBER_REGISTERS
       THEN /\ pc' = "aborted"
            /\ UNCHANGED <<occupiedRegister, registers>>
       ELSE /\ pc' = "funcs"
            /\ occupiedRegister' =
                   [i \in 0..(NUMBER_REGISTERS - 1) |->
                       i = RBP \/ i = RSP \/ i < Len(funcDefNode.params)]
            /\ registers' = ParamRegisters(funcDefNode.params)
    /\ UNCHANGED <<privilegedAddresses, outFile, sites, branches, vm>>

\* one iteration of the loop of transpile_scope over the statements of the
\* function's own scope
TranspileStatement(statement, ub) ==
    /\ pc = "funcs"
    /\ source # <<>>
    /\ TotalStmts(source) < MaxStmts
    /\ source' = [source EXCEPT ![Len(source)].body = Append(@, statement)]
    /\ \E c \in {transpile_statement(Ctx(ub), statement)} :
           IF c.crashed
           THEN /\ pc' = "crashed"
                /\ UNCHANGED <<occupiedRegister, registers, output_string,
                               sites, branches>>
           ELSE /\ pc' = "funcs"
                /\ occupiedRegister' = c.occ
                /\ registers' = c.regs
                /\ output_string' = c.out
                /\ sites' = c.sites
                /\ branches' = c.branches
    /\ UNCHANGED <<privilegedAddresses, outFile, vm>>

\* transpile(), lines 655-656: transpile_scope over the whole scope of the
\* function, all iterations of its loop in one step
TranspileBody(statements, ub) ==
    /\ pc = "funcs"
    /\ source # <<>>
    /\ source[Len(source)].body = <<>>
    /\ source' = [source EXCEPT ![Len(source)].body = statements]
    /\ \E c \in {transpile_scope(Ctx(ub), statements, 1)} :
           IF c.crashed
           THEN /\ pc' = "crashed"
                /\ UNCHANGED <<occupiedRegister, registers, output_string,
                               sites, branches>>
           ELSE /\ pc' = "funcs"
                /\ occupiedRegister' = c.occ
                /\ registers' = c.regs
                /\ output_string' = c.out
                /\ sites' = c.sites
                /\ branches' = c.branches
    /\ UNCHANGED <<privilegedAddresses, outFile, vm>>

\* transpile(), lines 661-666: the resolution pass and the output file
WriteOutput(labels, order) ==
    /\ pc = "funcs"
    /\ pc' = "written"
    /\ output_string' = replace_jump_labels(output_string, labels, order)
    /\ outFile' = output_string'
    /\ UNCHANGED <<privilegedAddresses, occupiedRegister, registers, source,
                   sites, branches, vm>>

\* ------------------------------------------------- the bytecode machine
\* (lexer.h 41-63, challenge statement; cmpGT: transpiler.h 23)
\* immediates are 64 bit unsigned (lexer.h 54); the machine is modelled with
\* a narrower word, wide enough for every address and value the pools use
WORD == 65536

\* the pieces of a line between blanks, empty pieces dropped
Tokens(line) ==
    LET sp == Positions(line, SP, 1, Len(line))
        pieces == [k \in 1..(Len(sp) + 1) |->
                      SubSeq(line, IF k = 1 THEN 1 ELSE sp[k - 1] + 1,
                                   IF k <= Len(sp) THEN sp[k] - 1 ELSE Len(line))]
    IN  SelectSeq(pieces, LAMBDA t : t # <<>>)

AllDigits(t) == t # <<>> /\ \A i \in 1..Len(t) : IsDigit(t[i])

IsReg(t) == Len(t) = 1 /\ IsDigit(t[1]) /\ DigitVal(t[1]) < NUMBER_REGISTERS

\* the line is one instruction of the instruction set
ValidTokens(t) ==
    /\ Len(t) >= 1
    /\ Len(t[1]) = 1
    /\ CASE t[1][1] = "exit" -> Len(t) = 1
         [] t[1][1] \in {"add", "sub", "mul", "cmpGT"} ->
                Len(t) = 4 /\ IsReg(t[2]) /\ IsReg(t[3]) /\ IsReg(t[4])
         [] t[1][1] \in {"load", "store", "request", "jmpEqZ"} ->
                Len(t) = 3 /\ IsReg(t[2]) /\ IsReg(t[3])
         [] t[1][1] = "li" -> Len(t) = 3 /\ IsReg(t[2]) /\ AllDigits(t[3])
         [] t[1][1] = "syscall" -> Len(t) = 2 /\ IsReg(t[2])
         [] OTHER -> FALSE

ValidLine(line) == ValidTokens(Tokens(line))

Arg(t, k) == stoi(t[k + 1])

MemAt(m, addr) == IF addr \in DOMAIN m THEN m[addr] ELSE 0

PrivAddrs == {stoi(privilegedAddresses[n]) : n \in DOMAIN privilegedAddresses}

VMStart(v) ==
    /\ pc = "written"
    /\ vm.status = "idle"
    /\ vm' = [vm EXCEPT !.status = "running",
                        !.mem = [addr \in PrivAddrs |-> v]]
    /\ UNCHANGED <<pc, privilegedAddresses, occupiedRegister, registers,
                   output_string, outFile, source, sites, branches>>

\* one instruction
Exec(m, t) ==
    LET op == t[1][1]
        next == [m EXCEPT !.pc = @ + 1]
        ev(kind, addr) == [op |-> kind, addr |-> addr, line |-> m.pc]
    IN  CASE op = "exit" -> [m EXCEPT !.status = "exited"]
          [] op = "li" -> [next EXCEPT !.reg[Arg(t, 1)] = Arg(t, 2) % WORD]
          [] op = "add" ->
                [next EXCEPT !.reg[Arg(t, 3)] =
                     (m.reg[Arg(t, 1)] + m.reg[Arg(t, 2)]) % WORD]
          [] op = "sub" ->
                [next EXCEPT !.reg[Arg(t, 3)] =
                     (m.reg[Arg(t, 1)] - m.reg[Arg(t, 2)]) % WORD]
          [] op = "mul" ->
                [next EXCEPT !.reg[Arg(t, 3)] =
                     (m.reg[Arg(t, 1)] * m.reg[Arg(t, 2)]) % WORD]
          [] op = "cmpGT" ->
                [next EXCEPT !.reg[Arg(t, 3)] =
                     IF m.reg[Arg(t, 1)] > m.reg[Arg(t, 2)] THEN 1 ELSE 0]
          [] op = "load" ->
                [next EXCEPT !.reg[Arg(t, 2)] = MemAt(m.mem, m.reg[Arg(t, 1)]),
                             !.log = Append(@, ev("load", m.reg[Arg(t, 1)]))]
          [] op = "store" ->
                [next EXCEPT !.mem = Put(@, m.reg[Arg(t, 1)], m.reg[Arg(t, 2)]),
                             !.log = Append(@, ev("store", m.reg[Arg(t, 1)]))]
          [] op = "request" ->
                [next EXCEPT !.log = Append(@, ev("request", m.reg[Arg(t, 1)]))]
          [] op = "jmpEqZ" ->
                [m EXCEPT !.pc = IF m.reg[Arg(t, 1)] = 0 THEN m.reg[Arg(t, 2)]
                                 ELSE m.pc + 1,
                          !.conds = Put(@, m.pc, m.reg[Arg(t, 1)])]
          [] op = "syscall" ->
                [next EXCEPT !.log = Append(@, ev("syscall", m.reg[Arg(t, 1)])),
                             !.calls = Append(@, [line |-> m.pc,
                                                  operand |-> Arg(t, 1),
                                                  reg |-> m.reg])]

VMStep ==
    /\ vm.status = "running"
    /\ vm.steps < MaxSteps
    /\ LET prog == Lines(outFile)
       IN  vm' = IF vm.pc \notin 1..Len(prog)
                 THEN [vm EXCEPT !.status = "end"]
                 ELSE IF ~ValidLine(prog[vm.pc])
                 THEN [vm EXCEPT !.status = "fault"]
                 ELSE [Exec(vm, Tokens(prog[vm.pc])) EXCEPT
                          !.steps = @ + 1, !.visited = @ \cup {vm.pc}]
    /\ UNCHANGED <<pc, privilegedAddresses, occupiedRegister, registers,
                   output_string, outFile, source, sites, branches>>

Next ==
    \/ \E i \in 1..Len(DeclPool) : LoadPrivObjects(DeclPool[i])
    \/ \E i \in 1..Len(FuncPool) : BeginFunction(FuncPool[i])
    \/ \E i \in 1..Len(StmtPool), ub \in {"crash", "run"} :
           TranspileStatement(StmtPool[i], ub)
    \/ /\ pc = "funcs"
       /\ LET labels == ScanLabels(output_string)
          IN  \E order \in Orders(DOMAIN labels) : WriteOutput(labels, order)

Spec == Init /\ [][Next]_vars

NextLabels ==
    \/ \E i \in 1..Len(DeclPool) : LoadPrivObjects(DeclPool[i])
    \/ \E i \in 1..Len(FuncPool) : BeginFunction(FuncPool[i])
    \/ \E i \in 1..Len(LabelPool), ub \in {"crash", "run"} :
           TranspileStatement(LabelPool[i], ub)
    \/ /\ pc = "funcs"
       /\ LET labels == ScanLabels(output_string)
          IN  \E order \in Orders(DOMAIN labels) : WriteOutput(labels, order)

SpecLabels == Init /\ [][NextLabels]_vars

NextRun ==
    \/ \E i \in 1..Len(DeclPool) : LoadPrivObjects(DeclPool[i])
    \/ \E i \in 1..Len(FuncPool) : BeginFunction(FuncPool[i])
    \/ \E i \in 1..Len(RunPool), ub \in {"crash", "run"} :
           TranspileStatement(RunPool[i], ub)
    \/ /\ pc = "funcs"
       /\ LET labels == ScanLabels(output_string)
          IN  \E order \in Orders(DOMAIN labels) : WriteOutput(labels, order)
    \/ \E v \in MemValues : VMStart(v)
    \/ VMStep

SpecRun == Init /\ [][NextRun]_vars

NextParams ==
    \/ \E i \in 1..Len(DeclPool) : LoadPrivObjects(DeclPool[i])
    \/ \E i \in 1..Len(ParamFuncPool) : BeginFunction(ParamFuncPool[i])
    \/ \E i \in 1..Len(ParamStmtPool), ub \in {"crash", "run"} :
           TranspileStatement(ParamStmtPool[i], ub)
    \/ /\ pc = "funcs"
       /\ LET labels == ScanLabels(output_string)
          IN  \E order \in Orders(DOMAIN labels) : WriteOutput(labels, order)

SpecParams == Init /\ [][NextParams]_vars

NextExamples ==
    \/ \E i \in 1..Len(ExampleDecls) : LoadPrivObjects(ExampleDecls[i])
    \/ \E i \in 1..Len(FuncPool) : BeginFunction(FuncPool[i])
    \/ \E i \in 1..Len(BodyPool), ub \in {"crash", "run"} :
           TranspileBody(BodyPool[i], ub)
    \/ /\ pc = "funcs"
       /\ LET labels == ScanLabels(output_string)
          IN  \E order \in Orders(DOMAIN labels) : WriteOutput(labels, order)
    \/ \E v \in MemValues : VMStart(v)
    \/ VMStep

SpecExamples == Init /\ [][NextExamples]_vars

\* transpile() on the operator bodies, then a run of the output
NextOps ==
    \/ \E i \in 1..Len(ExampleDecls) : LoadPrivObjects(ExampleDecls[i])
    \/ \E i \in 1..Len(FuncPool) : BeginFunction(FuncPool[i])
    \/ \E i \in 1..Len(OpsPool), ub \in {"crash", "run"} :
           TranspileBody(OpsPool[i], ub)
    \/ /\ pc = "funcs"
       /\ LET labels == ScanLabels(output_string)
          IN  \E order \in Orders(DOMAIN labels) : WriteOutput(labels, order)
    \/ \E v \in MemValues : VMStart(v)
    \/ VMStep

SpecOps == Init /\ [][NextOps]_vars

\* ------------------------------------------------- reading the source
\* the cells the privileged assignments of a node write, in the order the
\* assignments are evaluated (operands first, the arguments left to right)
RECURSIVE NodeWrites(_, _)
RECURSIVE SeqWrites(_, _, _)
SeqWrites(nodes, priv, i) ==
    IF i > Len(nodes) THEN <<>>
    ELSE NodeWrites(nodes[i], priv) \o SeqWrites(nodes, priv, i + 1)

NodeWrites(n, priv) ==
    CASE n.type = "BIN_OP" ->
             NodeWrites(n.lhs, priv) \o NodeWrites(n.rhs, priv)
             \o (IF /\ n.op = "ASS"
                    /\ n.lhs.type = "IDENTIFIER"
                    /\ n.lhs.value \in DOMAIN priv
                 THEN <<stoi(priv[n.lhs.value])>> ELSE <<>>)
      [] n.type = "EXPR" -> NodeWrites(n.expr, priv)
      [] n.type \in {"FUNC_CALL", "SYS_CALL"} -> SeqWrites(n.args, priv, 1)
      [] n.type = "RETURN" ->
             IF n.has_expr THEN NodeWrites(n.expr, priv) ELSE <<>>
      [] n.type = "BRANCH" ->
             NodeWrites(n.condition, priv) \o NodeWrites(n.statement, priv)
             \o (IF n.has_else THEN NodeWrites(n.else_statement, priv) ELSE <<>>)
      [] n.type = "SCOPE" -> SeqWrites(n.statements, priv, 1)
      [] OTHER -> <<>>

RECURSIVE FuncsWrites(_, _, _)
FuncsWrites(src, priv, i) ==
    IF i > Len(src) THEN <<>>
    ELSE SeqWrites(src[i].body, priv, 1) \o FuncsWrites(src, priv, i + 1)

SourceWrites == FuncsWrites(source, privilegedAddresses, 1)

\* the syscall expressions of a node in the order they are evaluated: the
\* arguments of a call from left to right, then the call
RECURSIVE NodeSyscalls(_)
RECURSIVE SeqSyscalls(_, _)
SeqSyscalls(nodes, i) ==
    IF i > Len(nodes) THEN <<>>
    ELSE NodeSyscalls(nodes[i]) \o SeqSyscalls(nodes, i + 1)

NodeSyscalls(n) ==
    CASE n.type = "SYS_CALL" -> SeqSyscalls(n.args, 1) \o <<n>>
      [] n.type = "FUNC_CALL" -> SeqSyscalls(n.args, 1)
      [] n.type = "BIN_OP" -> NodeSyscalls(n.lhs) \o NodeSyscalls(n.rhs)
      [] n.type = "EXPR" -> NodeSyscalls(n.expr)
      [] n.type = "RETURN" -> IF n.has_expr THEN NodeSyscalls(n.expr) ELSE <<>>
      [] n.type = "BRANCH" ->
             NodeSyscalls(n.condition) \o NodeSyscalls(n.statement)
             \o (IF n.has_else THEN NodeSyscalls(n.else_statement) ELSE <<>>)
      [] n.type = "SCOPE" -> SeqSyscalls(n.statements, 1)
      [] OTHER -> <<>>

RECURSIVE FuncsSyscalls(_, _)
FuncsSyscalls(src, i) ==
    IF i > Len(src) THEN <<>>
    ELSE SeqSyscalls(src[i].body, 1) \o FuncsSyscalls(src, i + 1)

SourceSyscalls == FuncsSyscalls(source, 1)

\* the identifiers that occur in a node
RECURSIVE NodeIdents(_)
NodeIdents(n) ==
    CASE n.type = "IDENTIFIER" -> {n.value}
      [] n.type = "BIN_OP" -> NodeIdents(n.lhs) \cup NodeIdents(n.rhs)
      [] n.type = "EXPR" -> NodeIdents(n.expr)
      [] n.type \in {"FUNC_CALL", "SYS_CALL"} ->
             UNION {NodeIdents(n.args[i]) : i \in 1..Len(n.args)}
      [] n.type = "RETURN" -> IF n.has_expr THEN NodeIdents(n.expr) ELSE {}
      [] n.type = "BRANCH" ->
             NodeIdents(n.condition) \cup NodeIdents(n.statement)
             \cup (IF n.has_else THEN NodeIdents(n.else_statement) ELSE {})
      [] n.type = "SCOPE" ->
             UNION {NodeIdents(n.statements[i]) : i \in 1..Len(n.statements)}
      [] OTHER -> {}

\* the node types that occur in a node
RECURSIVE NodeTypes(_)
NodeTypes(n) ==
    {n.type} \cup
    CASE n.type = "BIN_OP" -> NodeTypes(n.lhs) \cup NodeTypes(n.rhs)
      [] n.type = "EXPR" -> NodeTypes(n.expr)
      [] n.type \in {"FUNC_CALL", "SYS_CALL"} ->
             UNION {NodeTypes(n.args[i]) : i \in 1..Len(n.args)}
      [] n.type = "RETURN" -> IF n.has_expr THEN NodeTypes(n.expr) ELSE {}
      [] n.type = "BRANCH" ->
             NodeTypes(n.condition) \cup NodeTypes(n.statement)
             \cup (IF n.has_else THEN NodeTypes(n.else_statement) ELSE {})
      [] n.type = "SCOPE" ->
             UNION {NodeTypes(n.statements[i]) : i \in 1..Len(n.statements)}
      [] OTHER -> {}

BodyIdents(f) == UNION {NodeIdents(f.body[i]) : i \in 1..Len(f.body)}

BodyTypes(f) == UNION {NodeTypes(f.body[i]) : i \in 1..Len(f.body)}

BodyHasPriv(f) == BodyIdents(f) \cap DOMAIN privilegedAddresses # {}

\* the names of the functions the source calls, and of those it defines
RECURSIVE NodeCalls(_)
NodeCalls(n) ==
    CASE n.type = "FUNC_CALL" ->
             {n.identifier} \cup UNION {NodeCalls(n.args[i]) : i \in 1..Len(n.args)}
      [] n.type = "SYS_CALL" -> UNION {NodeCalls(n.args[i]) : i \in 1..Len(n.args)}
      [] n.type = "BIN_OP" -> NodeCalls(n.lhs) \cup NodeCalls(n.rhs)
      [] n.type = "EXPR" -> NodeCalls(n.expr)
      [] n.type = "RETURN" -> IF n.has_expr THEN NodeCalls(n.expr) ELSE {}
      [] n.type = "BRANCH" ->
             NodeCalls(n.condition) \cup NodeCalls(n.statement)
             \cup (IF n.has_else THEN NodeCalls(n.else_statement) ELSE {})
      [] n.type = "SCOPE" ->
             UNION {NodeCalls(n.statements[i]) : i \in 1..Len(n.statements)}
      [] OTHER -> {}

Called ==
    UNION {UNION {NodeCalls(source[f].body[i]) : i \in 1..Len(source[f].body)} :
           f \in 1..Len(source)}

Defined == {source[f].identifier : f \in 1..Len(source)}

\* ------------------------------------------------- reading the output
FileLines == Lines(outFile)

FileTokens == [i \in 1..Len(FileLines) |-> Tokens(FileLines[i])]

Mnemonic(t) == IF Len(t) >= 1 /\ Len(t[1]) = 1 THEN t[1][1] ELSE ""

\* the line ends with "li <reg> <number>" for the register text reg
LoadsImmediate(t, reg) ==
    /\ Len(t) >= 3
    /\ AllDigits(t[Len(t)])
    /\ t[Len(t) - 1] = reg
    /\ t[Len(t) - 2] # <<>>
    /\ t[Len(t) - 2][Len(t[Len(t) - 2])] = "li"

\* the number the nearest line before line i loads into reg, -1 when none
ImmediateBefore(toks, i, reg) ==
    LET js == {j \in 1..(i - 1) : LoadsImmediate(toks[j], reg)}
        j == CHOOSE k \in js : \A m \in js : m <= k
    IN  IF js = {} THEN -1 ELSE stoi(toks[j][Len(toks[j])])

\* line i is a request and line i + 1 the store through its address register
IsWritePair(toks, i) ==
    /\ i + 1 <= Len(toks)
    /\ Mnemonic(toks[i]) = "request" /\ Len(toks[i]) >= 2
    /\ Mnemonic(toks[i + 1]) = "store" /\ Len(toks[i + 1]) >= 2
    /\ toks[i][2] = toks[i + 1][2]

\* the cells of the request+store pairs of the file, in file order
OutWrites ==
    LET toks == FileTokens
        marks == [i \in 1..Len(toks) |-> IsWritePair(toks, i)]
        at == Positions(marks, TRUE, 1, Len(marks))
    IN  [k \in 1..Len(at) |-> ImmediateBefore(toks, at[k], toks[at[k]][2])]

Written == pc = "written"

\* lines L..L+3 are: li A <cell>, li C <cycles>, request A C, <op> A V
\* with A, C, V registers and A # C
Protocol(toks, L, cell, cycles, op) ==
    /\ L >= 1 /\ L + 3 <= Len(toks)
    /\ Len(toks[L]) = 3 /\ Len(toks[L + 1]) = 3
    /\ Len(toks[L + 2]) = 3 /\ Len(toks[L + 3]) = 3
    /\ toks[L][1] = <<"li">> /\ IsReg(toks[L][2]) /\ toks[L][3] = to_string(cell)
    /\ toks[L + 1][1] = <<"li">> /\ IsReg(toks[L + 1][2])
    /\ toks[L + 1][3] = cycles
    /\ toks[L + 1][2] # toks[L][2]
    /\ toks[L + 2] = << <<"request">>, toks[L][2], toks[L + 1][2] >>
    /\ toks[L + 3][1] = <<op>> /\ toks[L + 3][2] = toks[L][2]
    /\ IsReg(toks[L + 3][3])

\* ------------------------------------------------------------ claims
\* C1: every assignment to a privileged identifier emits exactly one request
\* for the write: its address register was loaded by li with the
\* identifier's address, its cycles register is another register loaded
\* with 20, and the next instruction is the store through the same
\* address register of a register.
C1_WriteProtocol ==
    Written =>
        /\ \A k \in 1..Len(sites) :
               sites[k].kind \in {"write", "readwrite"} =>
                   Protocol(FileTokens,
                            sites[k].line
                                + (IF sites[k].kind = "readwrite" THEN 4 ELSE 0),
                            sites[k].to, STORE_CYCLES, "store")
        /\ Len(OutWrites) = Len(SourceWrites)

\* C2: the request+store pairs of the output name the cells of the
\* privileged assignments of the source, in evaluation order, one pair per
\* assignment.
C2_WriteOrder == Written => OutWrites = SourceWrites

C2_Witness ==
    /\ Written
    /\ SourceWrites = <<100, 200>>
    /\ OutWrites = <<100, 200>>

\* the text emitted for function i of the source
FuncText(i) ==
    SubSeq(output_string, source[i].from,
           IF i < Len(source) THEN source[i + 1].from - 1 ELSE Len(output_string))

\* C3: the text emitted for a function body in which no privileged
\* identifier occurs holds no request, before and after the resolution pass.
C3_NoRequest ==
    /\ pc = "funcs" =>
           \A i \in 1..Len(source) :
               ~BodyHasPriv(source[i]) =>
                   \A j \in 1..Len(FuncText(i)) : FuncText(i)[j] # "request"
    /\ Written =>
           ((\A i \in 1..Len(source) : ~BodyHasPriv(source[i])) =>
                \A j \in 1..Len(outFile) : outFile[j] # "request")

C3_Witness ==
    /\ pc = "funcs"
    /\ \E i \in 1..Len(source) :
           /\ ~BodyHasPriv(source[i])
           /\ {"SYS_CALL", "RETURN"} \subseteq BodyTypes(source[i])
           /\ \E j \in 1..Len(FuncText(i)) : FuncText(i)[j] = "syscall"
           /\ \E j \in 1..Len(FuncText(i)) : FuncText(i)[j] = "exit"

\* C4: every read of a privileged identifier emits li A <address>,
\* li C 30 with C # A, request A C and then load A D.
C4_ReadProtocol ==
    Written =>
        \A k \in 1..Len(sites) :
            sites[k].kind \in {"read_ass", "read_op"} =>
                Protocol(FileTokens, sites[k].line, sites[k].from,
                         LOAD_CYCLES, "load")

\* C5: a = b with both privileged emits the read sequence for b (request
\* with 30, load into a register) and after it the write sequence for a
\* (request with 20, store of that register).
C5_ReadThenWrite ==
    Written =>
        \A k \in 1..Len(sites) :
            sites[k].kind = "readwrite" =>
                /\ Protocol(FileTokens, sites[k].line, sites[k].from,
                            LOAD_CYCLES, "load")
                /\ Protocol(FileTokens, sites[k].line + 4, sites[k].to,
                            STORE_CYCLES, "store")
                /\ FileTokens[sites[k].line + 3][3]
                       = FileTokens[sites[k].line + 7][3]

\* C6: no instruction of the output has the privileged descriptor
\* "privileged-<address>" as an operand.
C6_NoDescriptor ==
    Written => \A i \in 1..Len(outFile) : outFile[i] # PRIV_PREFIX[1]

\* C7: every line of the output is one instruction of the instruction set
\* with register operands 0..7.
C7_ValidLines ==
    Written => \A i \in 1..Len(FileLines) : ValidLine(FileLines[i])

\* C8: after the resolution pass the output of a program that defines every
\* function it calls holds no label marker and every li immediate is a
\* number.
C8_NoSymbolicText ==
    (Written /\ Called \subseteq Defined) =>
        /\ \A i \in 1..Len(outFile) : outFile[i] # COLON
        /\ \A i \in 1..Len(FileLines) :
               \A k \in 1..Len(FileTokens[i]) :
                   (/\ FileTokens[i][k][Len(FileTokens[i][k])] = "li"
                    /\ k + 2 <= Len(FileTokens[i]))
                       => AllDigits(FileTokens[i][k + 2])

\* C9: the branches with an else-statement use pairwise different label
\* names, and after resolution the immediate staged for a branch's
\* conditional jump is its own else line and the one staged for its
\* unconditional jump is its own end line.
C9_OwnLabels ==
    Written =>
        /\ \A j, k \in 1..Len(branches) :
               (j # k /\ branches[j].has_else /\ branches[k].has_else) =>
                   /\ branches[j].else_label # branches[k].else_label
                   /\ branches[j].end_label # branches[k].end_label
        /\ \A k \in 1..Len(branches) :
               branches[k].has_else =>
                   /\ Len(FileTokens[branches[k].jmp - 1]) = 3
                   /\ FileTokens[branches[k].jmp - 1][3]
                          = to_string(branches[k].else_at)
                   /\ Len(FileTokens[branches[k].else_at - 2]) = 3
                   /\ FileTokens[branches[k].else_at - 2][3]
                          = to_string(branches[k].end_at)

\* the lines of the then-part and of the else-part of a branch
ThenLines(br) == (br.jmp + 1)..(br.else_at - 1)

ElseLines(br) == br.else_at..(br.end_at - 1)

Halted == vm.status \in {"exited", "end"}

\* the stores to cell addr that ran on the lines of the branch
BranchStores(br, addr) ==
    {i \in 1..Len(vm.log) :
        /\ vm.log[i].op = "store" /\ vm.log[i].addr = addr
        /\ vm.log[i].line \in (br.jmp + 1)..(br.end_at - 1)}

\* the cells both parts of the branch write
BothWrite(br) ==
    {sites[i].to : i \in {i \in 1..Len(sites) :
                             sites[i].kind = "write" /\ sites[i].line \in ThenLines(br)}}
    \cap
    {sites[i].to : i \in {i \in 1..Len(sites) :
                             sites[i].kind = "write" /\ sites[i].line \in ElseLines(br)}}

\* C10: when a run that met the conditional jump of a branch with an
\* else-statement has ended, instructions of exactly one part have run: of
\* the then-part when the condition was not zero, of the else-part when it
\* was zero; a cell both parts write was stored to exactly once.
C10_OneBranchRuns ==
    Halted =>
        \A k \in 1..Len(branches) :
            (branches[k].has_else /\ branches[k].jmp \in DOMAIN vm.conds) =>
                LET thenRan == vm.visited \cap ThenLines(branches[k]) # {}
                    elseRan == vm.visited \cap ElseLines(branches[k]) # {}
                IN  /\ vm.conds[branches[k].jmp] # 0 => (thenRan /\ ~elseRan)
                    /\ vm.conds[branches[k].jmp] = 0 => (elseRan /\ ~thenRan)
                    /\ \A addr \in BothWrite(branches[k]) :
                           Cardinality(BranchStores(branches[k], addr)) = 1

\* the line on which the label of the function `name` is defined
FuncLine(name) ==
    source[CHOOSE f \in 1..Len(source) : source[f].identifier = name].line

\* C11: after the resolution pass every instruction that staged a label
\* carries the index of the instruction that follows the label's
\* definition: the li before a call's jump carries the line of the called
\* function, the li before a branch's conditional jump the line of its else
\* label and the li before its unconditional jump the line of its end
\* label; with an else-statement the else line is below the end line.
C11_ResolvedIndices ==
    Written =>
        /\ \A k \in 1..Len(sites) :
               (sites[k].kind = "call" /\ sites[k].name \in Defined) =>
                   /\ sites[k].line <= Len(FileTokens)
                   /\ FileTokens[sites[k].line]
                          = << <<"li">>, <<"1">>,
                               to_string(FuncLine(sites[k].name)) >>
        /\ \A k \in 1..Len(branches) :
               /\ Len(FileTokens[branches[k].jmp - 1]) = 3
               /\ FileTokens[branches[k].jmp - 1][3]
                      = to_string(branches[k].else_at)
               /\ Len(FileTokens[branches[k].else_at - 2]) = 3
               /\ FileTokens[branches[k].else_at - 2][3]
                      = to_string(branches[k].end_at)
               /\ branches[k].has_else =>
                      branches[k].else_at < branches[k].end_at

\* C12: a program that calls a function it does not define gets no output
\* file: the resolution pass ends the compilation instead.
C12_UndefinedLabelFails ==
    ~(Called \subseteq Defined) => ~Written

\* C13: the placeholder the allocator returns when no register is free is
\* never part of the emitted text, and no output file holds it.
C13_NoPlaceholder ==
    /\ \A i \in 1..Len(output_string) : output_string[i] # ERROR_REG[1]
    /\ \A i \in 1..Len(outFile) : outFile[i] # ERROR_REG[1]

\* the registers a parameter can be given: all but the stack pointer and
\* the frame pointer
ParamSlots == (0..(NUMBER_REGISTERS - 1)) \ {RSP, RBP}

\* C14: a function with more parameters than there are registers for
\* parameters ends the compilation without output file; when the lowering
\* of a function's body starts, its parameters are bound to pairwise
\* different registers, none of them register 6 or 7.
C14_ParamOverflow ==
    /\ \A f \in 1..Len(source) :
           Len(source[f].params) > Cardinality(ParamSlots) =>
               pc = "aborted" /\ outFile = <<>>
    /\ (pc = "funcs" /\ source # <<>> /\ source[Len(source)].body = <<>>) =>
           LET ps == source[Len(source)].params
           IN  /\ \A i \in 1..Len(ps) :
                      /\ ps[i] \in DOMAIN registers
                      /\ \E r \in ParamSlots : registers[ps[i]] = <<CHR[r + 1]>>
               /\ \A i, j \in 1..Len(ps) :
                      i # j => registers[ps[i]] # registers[ps[j]]

\* the history records of the syscall instructions, in the order emitted
SyscallSites == SelectSeq(sites, LAMBDA st : st.kind = "syscall")

\* C15: the instruction before a syscall instruction is the li of the
\* number of the syscall (open 0, write 1, read 2, ioctl 3) into a
\* register, and the operand of the syscall instruction is that register.
C15_SyscallNumber ==
    Written =>
        \A k \in 1..Len(SyscallSites) :
            LET L == SyscallSites[k].line
                kind == SyscallSites[k].name[1]
            IN  /\ L > 1 /\ L <= Len(FileTokens)
                /\ Len(FileTokens[L - 1]) = 3
                /\ FileTokens[L - 1][1] = <<"li">>
                /\ IsReg(FileTokens[L - 1][2])
                /\ FileTokens[L - 1][3] = SyscallNumber(kind)
                /\ Mnemonic(FileTokens[L]) = "syscall"
                /\ Len(FileTokens[L]) >= 2
                /\ <<FileTokens[L][2][1]>> = FileTokens[L - 1][2]

Count(s, atom) == Cardinality({i \in 1..Len(s) : s[i] = atom})

\* the number of request instructions the privileged sequences of the
\* history stand for
SiteRequests ==
    LET RECURSIVE Sum(_)
        Sum(i) ==
            IF i > Len(sites) THEN 0
            ELSE (CASE sites[i].kind = "readwrite" -> 2
                    [] sites[i].kind \in {"write", "read_ass", "read_op"} -> 1
                    [] OTHER -> 0) + Sum(i + 1)
    IN  Sum(1)

AllNumbers(args) == \A i \in 1..Len(args) : args[i].type = "NUMBER"

\* C16: the output holds one syscall instruction per syscall expression and
\* no request beyond those of the privileged accesses; when the syscall
\* instruction of a syscall with k number arguments runs, registers 0..k-1
\* hold the arguments in order and its operand is a register other than
\* these that holds the syscall number, one of the first three when k < 3.
C16_SyscallArguments ==
    /\ Written =>
           /\ Count(outFile, "syscall") = Len(SourceSyscalls)
           /\ Count(outFile, "request") = SiteRequests
    /\ \A j \in 1..Len(vm.calls) :
           /\ j <= Len(SourceSyscalls)
           /\ LET sc == SourceSyscalls[j]
                  k == Len(sc.args)
                  call == vm.calls[j]
              IN  AllNumbers(sc.args) =>
                      /\ \A i \in 0..(k - 1) : call.reg[i] = sc.args[i + 1].value
                      /\ call.operand \notin 0..(k - 1)
                      /\ call.reg[call.operand] = stoi(SyscallNumber(sc.syscall))
                      /\ k < 3 => call.operand \in 0..2

\* the mnemonics of the instruction set
InstrNames ==
    {"exit", "add", "sub", "mul", "cmpGT", "load", "store", "request", "li",
     "jmpEqZ", "syscall"}

\* C17: the syscall instructions are emitted in the order in which the
\* source evaluates the syscall expressions, and no instruction emitted
\* after a syscall instruction shares its line: each starts on a later line.
C17_SyscallOrder ==
    Written =>
        /\ Len(SyscallSites) = Len(SourceSyscalls)
        /\ \A k \in 1..Len(SyscallSites) :
               /\ SyscallSites[k].name[1] = SourceSyscalls[k].syscall
               /\ SyscallSites[k].line <= Len(FileLines)
               /\ FileLines[SyscallSites[k].line][1] = "syscall"
               /\ \A i \in 2..Len(FileLines[SyscallSites[k].line]) :
                      FileLines[SyscallSites[k].line][i] \notin InstrNames

\* the trivial example of the challenge statement: a privileged at 200,
\* main() { d = 0; e = 2; a = d + e; }
TrivialProgram ==
    /\ DOMAIN privilegedAddresses = {a}
    /\ privilegedAddresses[a] = to_string(200)
    /\ Len(source) = 1
    /\ source[1].identifier = main
    /\ source[1].body = BodyPool[1]

FileMnemonics == [i \in 1..Len(FileTokens) |-> Mnemonic(FileTokens[i])]

LastStmt == source[1].body[Len(source[1].body)]

OneFunction == Len(source) = 1 /\ source[1].body # <<>>

\* the statement assigns the result of == or != to a variable
IsCmp(st) ==
    /\ st.type = "EXPR"
    /\ st.expr.type = "BIN_OP" /\ st.expr.op = "ASS"
    /\ st.expr.rhs.type = "BIN_OP" /\ st.expr.rhs.op \in {"EQ", "NE"}

\* the operand is a number or a privileged identifier, whose value when
\* the comparison runs is the number or the content of its cell
OperandKnown(n) ==
    \/ n.type = "NUMBER"
    \/ n.type = "IDENTIFIER" /\ n.value \in DOMAIN privilegedAddresses

OperandValue(n) ==
    IF n.type = "NUMBER" THEN n.value % WORD
    ELSE MemAt(vm.mem, stoi(privilegedAddresses[n.value]))

\* the last line of the file with this mnemonic
LastLineOf(mn) ==
    CHOOSE i \in 1..Len(FileTokens) :
        /\ FileMnemonics[i] = mn
        /\ \A j \in (i + 1)..Len(FileTokens) : FileMnemonics[j] # mn

\* the machine has just run line L
JustRan(L) == vm.status = "running" /\ vm.pc = L + 1 /\ L \in vm.visited

\* C19: when the last instruction of the code emitted for l == r has run,
\* its result register holds 1 if the operands' values are equal and 0 if
\* not; when that of l != r has run, its result register holds 0 if they
\* are equal and a number other than 0 if not.
C19_Comparison ==
    (/\ OneFunction /\ IsCmp(LastStmt)
     /\ OperandKnown(LastStmt.expr.rhs.lhs)
     /\ OperandKnown(LastStmt.expr.rhs.rhs)
     /\ vm.status = "running") =>
        LET cmp == LastStmt.expr.rhs
            L == LastLineOf(IF cmp.op = "EQ" THEN "cmpGT" ELSE "sub")
            res == vm.reg[stoi(FileTokens[L][4])]
            same == OperandValue(cmp.lhs) = OperandValue(cmp.rhs)
        IN  JustRan(L) =>
                IF cmp.op = "EQ" THEN res = (IF same THEN 1 ELSE 0)
                ELSE (res = 0) <=> same

\* the value of an expression made of numbers, +, - and *
RECURSIVE Value(_)
Value(n) ==
    CASE n.type = "NUMBER" -> n.value % WORD
      [] n.type = "EXPR" -> Value(n.expr)
      [] n.type = "BIN_OP" /\ n.op = "ADD" -> (Value(n.lhs) + Value(n.rhs)) % WORD
      [] n.type = "BIN_OP" /\ n.op = "SUB" -> (Value(n.lhs) - Value(n.rhs)) % WORD
      [] n.type = "BIN_OP" /\ n.op = "MUL" -> (Value(n.lhs) * Value(n.rhs)) % WORD

RECURSIVE Closed(_)
Closed(n) ==
    CASE n.type = "NUMBER" -> TRUE
      [] n.type = "EXPR" -> Closed(n.expr)
      [] n.type = "BIN_OP" ->
             n.op \in {"ADD", "SUB", "MUL"} /\ Closed(n.lhs) /\ Closed(n.rhs)
      [] OTHER -> FALSE

\* the body ends with the only return of the program, of such an expression
EndsWithReturn ==
    /\ OneFunction
    /\ LastStmt.type = "RETURN" /\ LastStmt.has_expr /\ Closed(LastStmt.expr)
    /\ \A j \in 1..(Len(source[1].body) - 1) :
           "RETURN" \notin NodeTypes(source[1].body[j])

\* C20: when the exit emitted for return e has run, register 0 holds the
\* value of e; the text emitted for a body that is the statement return;
\* alone is the instruction exit and nothing else.
C20_ReturnValue ==
    /\ (EndsWithReturn /\ vm.status = "exited") =>
           vm.reg[0] = Value(LastStmt.expr)
    /\ pc = "funcs" =>
           \A i \in 1..Len(source) :
               source[i].body = <<ReturnVoid>> =>
                   FuncText(i) = source[i].identifier \o <<COLON>>
                       \o (IF source[i].identifier = main
                           THEN Li(to_string(RBP), to_string(START_OF_STACK))
                                \o Li(to_string(RSP), to_string(START_OF_STACK))
                           ELSE <<>>)
                       \o <<"exit", NL>>

\* ------------------------------------------------------------------
\* the operators
RelOps == {"LT", "GT", "LE", "GE", "EQ"}

\* the statement assigns the result of an operator of `ops` to a variable
IsOpAssign(st, ops) ==
    /\ st.type = "EXPR"
    /\ st.expr.type = "BIN_OP" /\ st.expr.op = "ASS"
    /\ st.expr.rhs.type = "BIN_OP" /\ st.expr.rhs.op \in ops

\* the history records of the operators lowered so far
OpSites == SelectSeq(sites, LAMBDA st : st.kind = "op")

LastOp == OpSites[Len(OpSites)]

\* the line of the last instruction emitted for the operator of the record
FinalLine(st) ==
    st.line + (IF st.name[1] \in {"LE", "GE", "EQ"} THEN 2 ELSE 0)

Gt(u, v) == IF u > v THEN 1 ELSE 0

\* the value the relational operator is stated to leave for operands u, v
Stated(op, u, v) ==
    CASE op = "LT" -> Gt(v, u)
      [] op = "GT" -> Gt(u, v)
      [] op = "LE" -> (1 - Gt(u, v)) % WORD
      [] op = "GE" -> (1 - Gt(v, u)) % WORD
      [] op = "EQ" -> (1 - Gt(1, (u - v) % WORD)) % WORD

\* C21: when the last instruction emitted for l op r has run, op one of <,
\* >, <=, >=, ==, the result register holds cmpGT(r, l) for <, cmpGT(l, r)
\* for >, 1 - cmpGT(l, r) for <=, 1 - cmpGT(r, l) for >= and
\* 1 - cmpGT(1, l - r) for ==, and so a value that is 0 or 1.
C21_RelationalValues ==
    (/\ OneFunction /\ IsOpAssign(LastStmt, RelOps)
     /\ OperandKnown(LastStmt.expr.rhs.lhs)
     /\ OperandKnown(LastStmt.expr.rhs.rhs)
     /\ vm.status = "running") =>
        LET cmp == LastStmt.expr.rhs
            res == vm.reg[stoi(LastOp.regs[3])]
        IN  JustRan(FinalLine(LastOp)) =>
                /\ res = Stated(cmp.op, OperandValue(cmp.lhs),
                                OperandValue(cmp.rhs))
                /\ res \in {0, 1}

\* ------------------------------------------------------------------
\* the register allocator
InBody == pc = "funcs" /\ source # <<>>

\* C22: inside a function body registers 6 and 7 are marked occupied at
\* every recorded step of the generators and are never marked free, so that
\* get_free_register returns neither; and when some register is free it
\* returns the highest-numbered free register.
C22_FreeRegister ==
    InBody =>
        /\ occupiedRegister[RSP] /\ occupiedRegister[RBP]
        /\ \A k \in 1..Len(sites) :
               /\ sites[k].occ[RSP] /\ sites[k].occ[RBP]
               /\ sites[k].kind = "free" => sites[k].to \notin {RSP, RBP}
        /\ LET r == get_free_register(Ctx("run"))
               free == {i \in 0..(NUMBER_REGISTERS - 1) : ~occupiedRegister[i]}
           IN  IF free = {} THEN r = ERROR_REG
               ELSE /\ stoi(r) \in free \ {RSP, RBP}
                    /\ \A i \in free : i <= stoi(r)

\* a body in which a register was freed and that leaves register 4 free
\* between the occupied registers 0 and 5
C22_Witness ==
    /\ InBody
    /\ \E k \in 1..Len(sites) : sites[k].kind = "free"
    /\ occupiedRegister[0] /\ ~occupiedRegister[4] /\ occupiedRegister[5]

\* ------------------------------------------------------------------
\* calls of user functions
CallSites == SelectSeq(sites, LAMBDA st : st.kind = "call")

\* the instruction of a line of output_string, without the label in front
StripLabel(line) ==
    IF \E i \in 1..Len(line) : line[i] = COLON
    THEN SubSeq(line, 1 + (CHOOSE i \in 1..Len(line) :
                               /\ line[i] = COLON
                               /\ \A j \in 1..(i - 1) : line[j] # COLON),
                Len(line))
    ELSE line

OutTokens ==
    LET ls == Lines(output_string)
    IN  [i \in 1..Len(ls) |-> Tokens(StripLabel(ls[i]))]

\* the line moves a register to or from the stack, or steps a stack register
IsPush(t) == Len(t) = 3 /\ t[1] = <<"store">> /\ t[2] = to_string(RSP)
IsPop(t) == Len(t) = 3 /\ t[1] = <<"load">> /\ t[2] = to_string(RSP)
IsStep(t, mn, r) ==
    Len(t) = 4 /\ t[1] = <<mn>> /\ t[2] = to_string(r) /\ t[4] = to_string(r)
IsStackLine(t) ==
    \/ IsPush(t) \/ IsPop(t)
    \/ \E mn \in {"add", "sub", "mul"}, r \in {RSP, RBP} : IsStep(t, mn, r)

\* the lines from..to of the output that satisfy Keep, in order
Pick(from, to, Keep(_)) ==
    SelectSeq([i \in 1..(to - from + 1) |-> OutTokens[from + i - 1]], Keep)

Reverse(q) == [i \in 1..Len(q) |-> q[Len(q) + 1 - i]]

\* the text of push_registers of the call (its first line and the stack
\* lines before the jump) and the text of pop_registers after the jump
PushText(cs) ==
    <<OutTokens[cs.first]>> \o Pick(cs.first + 1, cs.line - 1, IsStackLine)
PopText(cs) == Pick(cs.line + 2, cs.last, LAMBDA t : TRUE)

RECURSIVE RunText(_, _, _)
RunText(m, text, i) ==
    IF i > Len(text) THEN m ELSE RunText(Exec(m, text[i]), text, i + 1)

\* the stack registers after the push and the pop of the call have run on
\* a machine whose stack registers hold START_OF_STACK
AfterCall(cs) ==
    RunText([VmIdle EXCEPT !.status = "running",
                           !.reg[RSP] = START_OF_STACK,
                           !.reg[RBP] = START_OF_STACK],
            PushText(cs) \o PopText(cs), 1).reg

\* C23: for every call of a user function, each register occupied at the
\* call, register 0 included, is stored to the stack before the jump; the
\* instructions after the jump load those registers back in reverse order;
\* the stack and frame pointers are stepped down as often as up and there
\* are as many loads as stores, so both pointers end at their values
\* before the call.
C23_PushPop ==
    pc = "funcs" =>
        \A k \in 1..Len(CallSites) :
            LET cs == CallSites[k]
                push == Pick(cs.first, cs.line - 1, IsPush)
                pop == Pick(cs.line + 2, cs.last, IsPop)
                Steps(from, to, mn, r) ==
                    Len(Pick(from, to, LAMBDA t : IsStep(t, mn, r)))
            IN  /\ \A i \in 0..(NUMBER_REGISTERS - 1) :
                       cs.occ[i] => \E j \in 1..Len(push) :
                                        push[j][3] = to_string(i)
                /\ [j \in 1..Len(pop) |-> pop[j][3]]
                       = Reverse([j \in 1..Len(push) |-> push[j][3]])
                /\ \A r \in {RSP, RBP} :
                       Steps(cs.first, cs.line - 1, "add", r)
                           = Steps(cs.line + 2, cs.last, "sub", r)
                /\ AfterCall(cs)[RSP] = START_OF_STACK
                /\ AfterCall(cs)[RBP] = START_OF_STACK

\* the call the argument move of history record k belongs to: the next
\* call record
CallOf(k) ==
    sites[CHOOSE j \in (k + 1)..Len(sites) :
              /\ sites[j].kind = "call"
              /\ \A h \in (k + 1)..(j - 1) : sites[h].kind # "call"]

\* C24: the register into which a call moves its i-th argument is register
\* i, to which transpile() binds the i-th parameter of the called function,
\* for every i below the number of parameters; and it is none of the
\* registers bound to the identifiers that later arguments of the call read.
C24_ArgumentRegisters ==
    pc = "funcs" =>
        \A k \in 1..Len(sites) :
            (/\ sites[k].kind = "arg"
             /\ \E j \in (k + 1)..Len(sites) : sites[j].kind = "call") =>
                LET placed == OutTokens[sites[k].line][2]
                IN  /\ \A f \in 1..Len(source) :
                           (/\ source[f].identifier = CallOf(k).name
                            /\ sites[k].to < Len(source[f].params)) =>
                               placed = to_string(sites[k].to)
                    /\ \A j \in 1..Len(sites[k].regs) :
                           sites[k].regs[j] # placed

\* ------------------------------------------------------------------
\* parameters
\* the statement uses the identifier q where a register-resident identifier
\* can stand: as the returned value, as the source of an assignment to a
\* variable, as an operand, or as the argument of a call
UsesAs(st, q) ==
    \/ st.type = "RETURN" /\ st.has_expr /\ st.expr = Id(q)
    \/ /\ st.type = "EXPR"
       /\ \/ /\ st.expr.type = "BIN_OP" /\ st.expr.op = "ASS"
             /\ st.expr.lhs.type = "IDENTIFIER"
             /\ st.expr.lhs.value \notin DOMAIN privilegedAddresses
             /\ \/ st.expr.rhs = Id(q)
                \/ /\ st.expr.rhs.type = "BIN_OP"
                   /\ st.expr.rhs.lhs = Id(q)
                   /\ st.expr.rhs.rhs.type = "NUMBER"
          \/ /\ st.expr.type = "FUNC_CALL"
             /\ st.expr.args = <<Id(q)>>

\* C25: when the lowering of a function's body starts, its i-th parameter
\* (from 0) is bound to the decimal text of i; the output holds no register
\* operand that is a raw character; and a statement that uses a parameter
\* as returned value, source of an assignment, operand or call argument,
\* in a function with registers to spare, does not end the compilation
\* with an exception.
C25_ParameterOperand ==
    (source # <<>> /\ pc \in {"funcs", "crashed"}) =>
        LET fn == source[Len(source)]
            ps == fn.params
        IN  /\ (pc = "funcs" /\ fn.body = <<>>) =>
                   \A i \in 1..Len(ps) : registers[ps[i]] = to_string(i - 1)
            /\ \A i \in 1..Len(output_string) : ~IsChr(output_string[i])
            /\ (pc = "crashed" /\ fn.body # <<>> /\ Len(ps) <= 3) =>
                   \A i \in 1..Len(ps) : ~UsesAs(fn.body[Len(fn.body)], ps[i])

\* ------------------------------------------------------------------
\* operands
ArithOps == {"ADD", "SUB", "MUL"}

\* the statement assigns a number or a variable to a variable
IsPlainAssign(st) ==
    /\ st.type = "EXPR"
    /\ st.expr.type = "BIN_OP" /\ st.expr.op = "ASS"
    /\ st.expr.lhs.type = "IDENTIFIER"
    /\ st.expr.lhs.value \notin DOMAIN privilegedAddresses
    /\ st.expr.rhs.type \in {"NUMBER", "IDENTIFIER"}
    /\ st.expr.rhs.type = "IDENTIFIER" =>
           st.expr.rhs.value \notin DOMAIN privilegedAddresses

\* the values of the variables after the first n statements of the body,
\* as far as assignments of numbers and of variables give them
RECURSIVE VarsAfter(_, _)
VarsAfter(body, n) ==
    IF n = 0 THEN EmptyMap
    ELSE LET env == VarsAfter(body, n - 1)
             e == body[n].expr
         IN  IF ~IsPlainAssign(body[n]) THEN env
             ELSE IF e.rhs.type = "NUMBER"
             THEN Put(env, e.lhs.value, e.rhs.value % WORD)
             ELSE IF e.rhs.value \in DOMAIN env
             THEN Put(env, e.lhs.value, env[e.rhs.value])
             ELSE env

\* the operand is a number, a privileged identifier, or a variable with a
\* value in env
Known(n, env) ==
    \/ OperandKnown(n)
    \/ n.type = "IDENTIFIER" /\ n.value \in DOMAIN env

ValueOf(n, env) ==
    IF OperandKnown(n) THEN OperandValue(n) ELSE env[n.value]

\* C26: the first instruction emitted for l op r, with l and r two
\* different operands that are numbers or identifiers, reads them from two
\* different registers, and when the machine reaches that instruction each
\* of the two registers holds the value of its operand.
C26_OperandRegisters ==
    (/\ OneFunction /\ pc \in {"funcs", "written"}
     /\ IsOpAssign(LastStmt, ArithOps \cup RelOps \cup {"NE"})
     /\ LastStmt.expr.rhs.lhs.type \in {"NUMBER", "IDENTIFIER"}
     /\ LastStmt.expr.rhs.rhs.type \in {"NUMBER", "IDENTIFIER"}
     /\ LastStmt.expr.rhs.lhs # LastStmt.expr.rhs.rhs) =>
        LET l == LastStmt.expr.rhs.lhs
            r == LastStmt.expr.rhs.rhs
            env == VarsAfter(source[1].body, Len(source[1].body) - 1)
        IN  /\ LastOp.regs[1] # LastOp.regs[2]
            /\ (/\ vm.status = "running" /\ vm.pc = LastOp.line
                /\ Known(l, env) /\ Known(r, env)) =>
                   /\ vm.reg[stoi(LastOp.regs[1])] = ValueOf(l, env)
                   /\ vm.reg[stoi(LastOp.regs[2])] = ValueOf(r, env)

\* ------------------------------------------------------------------
\* the symbol table
\* the number of the register a symbol table entry names: the decimal text
\* of a variable's register or the raw character of a parameter's
RegIndex(r) ==
    IF Len(r) = 1 /\ IsChr(r[1])
    THEN (CHOOSE i \in 1..Len(CHR) : CHR[i] = r[1]) - 1
    ELSE stoi(r)

\* the non-privileged identifiers of the function being lowered
OwnIdents ==
    LET fn == source[Len(source)]
    IN  ({fn.params[i] : i \in 1..Len(fn.params)}
         \cup UNION {NodeIdents(fn.body[i]) : i \in 1..Len(fn.body)})
        \ DOMAIN privilegedAddresses

\* C27: between the statements of a function body every register that the
\* symbol table binds to a non-privileged identifier of the function is
\* marked occupied.
C27_BoundOccupied ==
    InBody =>
        \A n \in OwnIdents \cap DOMAIN registers :
            /\ RegIndex(registers[n]) \in 0..(NUMBER_REGISTERS - 1)
            /\ occupiedRegister[RegIndex(registers[n])]

\* C28: when the code of a body that ends with x = e has run to its end, x
\* a variable and e a number or a variable with a value (x itself
\* included), the register bound to x holds the value e had before the
\* assignment, and if e is a variable its register still holds that value.
C28_PlainAssign ==
    (/\ OneFunction /\ pc = "written" /\ vm.status = "end"
     /\ IsPlainAssign(LastStmt)
     /\ Known(LastStmt.expr.rhs,
              VarsAfter(source[1].body, Len(source[1].body) - 1))) =>
        LET e == LastStmt.expr
            was == ValueOf(e.rhs, VarsAfter(source[1].body,
                                            Len(source[1].body) - 1))
        IN  /\ vm.reg[RegIndex(registers[e.lhs.value])] = was
            /\ e.rhs.type = "IDENTIFIER" =>
                   vm.reg[RegIndex(registers[e.rhs.value])] = was

\* ------------------------------------------------------------------
\* temporaries
\* the statement is an expression of numbers, +, - and *, or assigns one
\* to a variable
ArithStmt(st) ==
    /\ st.type = "EXPR"
    /\ \/ Closed(st.expr)
       \/ /\ st.expr.type = "BIN_OP" /\ st.expr.op = "ASS"
          /\ st.expr.lhs.type = "IDENTIFIER"
          /\ st.expr.lhs.value \notin DOMAIN privilegedAddresses
          /\ Closed(st.expr.rhs)

\* the registers that stay occupied for the function being lowered: the
\* stack registers, those of its parameters and those bound to identifiers
Held ==
    {RSP, RBP}
    \cup 0..(Len(source[Len(source)].params) - 1)
    \cup {RegIndex(registers[n]) : n \in OwnIdents \cap DOMAIN registers}

\* C29: the result of l op r, op one of +, - and *, is left in a register
\* other than the two operand registers, and after the operator the
\* register of an operand that is a number is marked free; after a body of
\* arithmetic statements no register is occupied but the stack registers,
\* the parameters' and those bound to identifiers.
C29_TemporariesFreed ==
    /\ (/\ OneFunction /\ pc \in {"funcs", "written"}
        /\ IsOpAssign(LastStmt, ArithOps)
        /\ LastStmt.expr.rhs.lhs.type \in {"NUMBER", "IDENTIFIER"}
        /\ LastStmt.expr.rhs.rhs.type \in {"NUMBER", "IDENTIFIER"}) =>
           /\ LastOp.regs[3] \notin {LastOp.regs[1], LastOp.regs[2]}
           /\ LastStmt.expr.rhs.lhs.type = "NUMBER" =>
                  ~LastOp.occ[stoi(LastOp.regs[1])]
           /\ LastStmt.expr.rhs.rhs.type = "NUMBER" =>
                  ~LastOp.occ[stoi(LastOp.regs[2])]
    /\ (/\ InBody
        /\ \A i \in 1..Len(source[Len(source)].body) :
               ArithStmt(source[Len(source)].body[i])) =>
           {i \in 0..(NUMBER_REGISTERS - 1) : occupiedRegister[i]} = Held

\* ------------------------------------------------------------------
\* the start of a function
\* the lowering of the body of the last function is about to start
BodyStart == InBody /\ source[Len(source)].body = <<>>

\* the text transpile() emits in front of the body of function fn
FuncHead(fn) ==
    fn.identifier \o <<COLON>>
    \o (IF fn.identifier = main
        THEN Li(to_string(RBP), to_string(START_OF_STACK))
             \o Li(to_string(RSP), to_string(START_OF_STACK))
        ELSE <<>>)

\* C30: when the lowering of a function's body starts, the occupied
\* registers are 6, 7 and the registers 0..k-1 of its k parameters, the
\* symbol table holds its parameters and nothing else, and the text emitted
\* for it so far is its label, followed by the li of 9216 into registers 7
\* and 6 if and only if it is main; the privileged address table never
\* changes once it is filled.
C30_FunctionStart ==
    /\ [](BodyStart =>
             LET fn == source[Len(source)]
             IN  /\ {i \in 0..(NUMBER_REGISTERS - 1) : occupiedRegister[i]}
                        = {RSP, RBP} \cup 0..(Len(fn.params) - 1)
                 /\ DOMAIN registers
                        = {fn.params[i] : i \in 1..Len(fn.params)}
                 /\ FuncText(Len(source)) = FuncHead(fn))
    /\ [][pc # "new" => privilegedAddresses' = privilegedAddresses]_vars

\* the second function starts after the first one bound a variable and
\* freed a register
C30_Witness ==
    /\ BodyStart
    /\ Len(source) = 2 /\ source[1].body # <<>>
    /\ source[2].params # <<>>
    /\ \E i \in 1..Len(source[1].body) :
           NodeIdents(source[1].body[i]) \ DOMAIN privilegedAddresses # {}
    /\ \E k \in 1..Len(sites) : sites[k].kind = "free"
====
